---- MODULE Spec2Model ----
(***************************************************************************)
(* Version resolution engine of yuheng-dispatch (src/src/github/pr/index.ts *)
(* from line 120 on: the version module) driven by the pull-request        *)
(* workflow of the entry point (src/unnamed/part_005).                     *)
(*                                                                         *)
(* A version string is a record [pfx, major, minor, patch, pre, num]:      *)
(* pfx is the textual prefix in front of the semantic version ("" for a    *)
(* clean version), pre the pre-release identifier ("" for a release) and   *)
(* num the pre-release counter.  The tag list is kept newest first, as     *)
(* `git tag -l --sort=-creatordate` returns it.                            *)
(*                                                                         *)
(* Spec is the run of the workflow on pull-request events, SpecEnv the     *)
(* same run with tags created by others and a failing tag listing,         *)
(* SpecCycle the run on the pull requests of the documented branch flow,   *)
(* SpecRelease one execution-mode run at the level of git commands,        *)
(* SpecPush two runs pushing the same version to one remote and            *)
(* SpecText the version-string functions on the text of a tag.             *)
(***************************************************************************)
EXTENDS Integers, Sequences, FiniteSets, TLC

\* ---------------------------------------------------------------- bounds
MaxTags == 5

\* ------------------------------------------------------- configuration
SUPPORTED_PREFIXES == {"v", "version-", "ver-", "rel-"}

SupportedBranch == {"main", "beta", "alpha"}

\* the two defaults of the `supported-branches` input found in the sources
SupportedBranchConfigs == {{"main", "beta"}, {"main", "beta", "alpha"}}

\* head.ref of a pull request: the three tracked branches or any other branch
SourceBranches == {"alpha", "beta", "main", "feature"}

\* label sets a pull request may carry
LabelSets == {{}, {"docs"}, {"patch"}, {"minor"}, {"major"}, {"minor", "major"}, {"patch", "docs"}}

\* ------------------------------------------------------------- values
Null == [pfx |-> "null", major |-> 0, minor |-> 0, patch |-> 0, pre |-> "", num |-> 0]

NoError == [context |-> "", reason |-> "", tag |-> Null, tagType |-> ""]

NoRequest == [target |-> "", source |-> "", labels |-> {}, merged |-> FALSE]

MkVersion(p, ma, mi, pa, pr, n) == [pfx |-> p, major |-> ma, minor |-> mi, patch |-> pa, pre |-> pr, num |-> n]

DEFAULT_VERSIONS_BASE == MkVersion("", 0, 0, 0, "", 0)

\* String.prototype.includes('-') on a tag: a dash in the prefix or a pre-release segment
PrefixHasDash(p) == p \in {"version-", "ver-", "rel-"}

IncludesDash(tag) == PrefixHasDash(tag.pfx) \/ tag.pre # ""

\* tag.includes(`-${suffix}.`)
IncludesSuffix(tag, suffix) == tag.pre = suffix

\* Array.prototype.find(...) || null: the element at the least of the positions `hits`
\* whose elements pass the test, or Null when none does
FindFirst(s, hits) ==
    IF hits = {} THEN Null ELSE s[CHOOSE i \in hits : \A j \in hits : i <= j]

\* ------------------------------------------------------ prefix handling
cleanVersion(version) == [version EXCEPT !.pfx = ""]

addVersionPrefix(version, prefix) == [cleanVersion(version) EXCEPT !.pfx = prefix]

normalizeVersion(version, prefix) == addVersionPrefix(cleanVersion(version), prefix)

createDefaultVersion(prefix) == addVersionPrefix(DEFAULT_VERSIONS_BASE, prefix)

\* ------------------------------------------------------------- semver
parseVersion(version) == IF version = Null THEN Null ELSE cleanVersion(version)

getBaseVersionString(version) ==
    LET parsed == parseVersion(version)
    IN  IF parsed = Null THEN DEFAULT_VERSIONS_BASE
        ELSE MkVersion("", parsed.major, parsed.minor, parsed.patch, "", 0)

\* semver.gt restricted to the major.minor.patch triple
BaseGt(a, b) ==
    \/ a.major > b.major
    \/ a.major = b.major /\ a.minor > b.minor
    \/ a.major = b.major /\ a.minor = b.minor /\ a.patch > b.patch

\* semver.gt: base first, then a release above any pre-release, then the counter
SemverGt(a, b) ==
    \/ BaseGt(a, b)
    \/ /\ ~BaseGt(b, a)
       /\ \/ a.pre = "" /\ b.pre # ""
          \/ a.pre # "" /\ b.pre # "" /\ a.pre = b.pre /\ a.num > b.num

compareBaseVersions(version1, version2) ==
    LET base1 == getBaseVersionString(version1)
        base2 == getBaseVersionString(version2)
    IN  IF SemverGt(base1, base2) THEN 1 ELSE IF SemverGt(base2, base1) THEN -1 ELSE 0

\* semver.inc(version, release, identifier) for the release types the engine uses.
\* semver accepts a bare version or one with a leading "v"; any other text in front
\* makes the parse fail and semver.inc return null.  The result carries no prefix.
SemverInc(version, release, identifier) ==
    LET v == cleanVersion(version)
    IN  IF version = Null \/ version.pfx \notin {"", "v"} THEN Null
        ELSE
        CASE release = "major" ->
                 IF v.pre # "" /\ v.minor = 0 /\ v.patch = 0
                 THEN MkVersion("", v.major, 0, 0, "", 0)
                 ELSE MkVersion("", v.major + 1, 0, 0, "", 0)
          [] release = "minor" ->
                 IF v.pre # "" /\ v.patch = 0
                 THEN MkVersion("", v.major, v.minor, 0, "", 0)
                 ELSE MkVersion("", v.major, v.minor + 1, 0, "", 0)
          [] release = "patch" ->
                 IF v.pre # ""
                 THEN MkVersion("", v.major, v.minor, v.patch, "", 0)
                 ELSE MkVersion("", v.major, v.minor, v.patch + 1, "", 0)
          [] release = "prerelease" ->
                 IF v.pre = ""
                 THEN MkVersion("", v.major, v.minor, v.patch + 1, identifier, 0)
                 ELSE IF v.pre = identifier
                      THEN MkVersion("", v.major, v.minor, v.patch, identifier, v.num + 1)
                      ELSE MkVersion("", v.major, v.minor, v.patch, identifier, 0)

\* ------------------------------------------------------------- labels
getReleaseTypeFromLabels(labels) ==
    IF "major" \in labels THEN "premajor"
    ELSE IF "minor" \in labels THEN "preminor"
    ELSE IF "patch" \in labels THEN "prepatch"
    ELSE "null"

releaseTypeMapping(releaseType) ==
    CASE releaseType = "premajor" -> "major"
      [] releaseType = "preminor" -> "minor"
      [] releaseType = "prepatch" -> "patch"
      [] OTHER -> releaseType

\* ------------------------------------------------------ tag inventory
IsMainTag(tag) == ~IncludesDash(tag)

parseMainVersion(allTags, prefix) ==
    LET latest == FindFirst(allTags, {i \in 1..Len(allTags) : IsMainTag(allTags[i])})
    IN  IF latest = Null THEN Null ELSE normalizeVersion(latest, prefix)

parseBranchVersion(allTags, branchSuffix, prefix) ==
    LET latest == FindFirst(allTags, {i \in 1..Len(allTags) : IncludesSuffix(allTags[i], branchSuffix)})
    IN  IF latest = Null THEN Null ELSE normalizeVersion(latest, prefix)

getLatestTag(allTags) == IF Len(allTags) > 0 THEN allTags[1] ELSE Null

getTagType(tag) ==
    IF tag = Null THEN "unknown"
    ELSE IF IncludesSuffix(tag, "alpha") THEN "alpha"
    ELSE IF IncludesSuffix(tag, "beta") THEN "beta"
    ELSE IF ~IncludesDash(tag) THEN "release"
    ELSE "unknown"

EmptyCache == [main |-> Null, beta |-> Null, alpha |-> Null]

\* VersionManager.initialize: a no-op once initialized, else one snapshot of the tags
initialize(c, initialized, allTags, prefix) ==
    IF initialized THEN c
    ELSE [main |-> parseMainVersion(allTags, prefix),
          beta |-> parseBranchVersion(allTags, "beta", prefix),
          alpha |-> parseBranchVersion(allTags, "alpha", prefix)]

getGlobalHighestVersion(c, prefix) ==
    LET versions == {v \in {c.main, c.beta, c.alpha} : v # Null}
        bases == {getBaseVersionString(v) : v \in versions}
        highest == IF bases = {} THEN DEFAULT_VERSIONS_BASE
                   ELSE CHOOSE b \in bases : \A o \in bases : ~BaseGt(o, b)
    IN  IF versions = {} THEN createDefaultVersion(prefix) ELSE addVersionPrefix(highest, prefix)

\* ------------------------------------------------- branch state gate
MkError(c, r, t, ty) == [context |-> c, reason |-> r, tag |-> t, tagType |-> ty]

\* allow-lists in which main may also follow a release
branchValidationRulesMainAfterRelease(targetBranch) ==
    CASE targetBranch = "alpha" -> {"release", "alpha"}
      [] targetBranch = "beta" -> {"alpha", "beta"}
      [] targetBranch = "main" -> {"beta", "release"}

branchValidationRules(targetBranch) ==
    CASE targetBranch = "alpha" -> {"release", "alpha"}
      [] targetBranch = "beta" -> {"alpha", "beta"}
      [] targetBranch = "main" -> {"beta"}

\* NoError when the promotion may proceed, else the error thrown: its message is
\* `${rule.errorMsg}，当前最新版本: ${latestTag} (${latestTagType})`
validateBranchVersionState(targetBranch, allTags) ==
    LET latestTag == getLatestTag(allTags)
        latestTagType == getTagType(latestTag)
    IN  IF latestTag = Null THEN NoError
        ELSE IF latestTagType \notin branchValidationRules(targetBranch)
             THEN MkError("validateBranchVersionState", targetBranch, latestTag, latestTagType)
             ELSE NoError

\* ------------------------------------------------------ base version
\* Each getXBaseVersion yields [value, error, usedCache]: usedCache tells whether
\* versionManager.getLatestVersion (hence initialize) was reached before returning.
BaseResult(v, e, u) == [value |-> v, error |-> e, usedCache |-> u]

getAlphaBaseVersion(sourceBranch, c, prefix) ==
    IF sourceBranch \in {"beta", "main"}
    THEN BaseResult(Null, MkError("getBaseVersion-alpha", "source", Null, ""), FALSE)
    ELSE LET currentAlphaVersion == c.alpha
             mainVersion == c.main
             mainBaseVersion == IF mainVersion # Null THEN getBaseVersionString(mainVersion) ELSE DEFAULT_VERSIONS_BASE
             mainOrDefault == IF mainVersion # Null THEN mainVersion ELSE createDefaultVersion(prefix)
         IN  IF currentAlphaVersion = Null THEN BaseResult(mainOrDefault, NoError, TRUE)
             ELSE IF getBaseVersionString(currentAlphaVersion) = mainBaseVersion
                  THEN BaseResult(mainOrDefault, NoError, TRUE)
                  ELSE BaseResult(currentAlphaVersion, NoError, TRUE)

getBetaBaseVersion(sourceBranch, c, prefix) ==
    LET currentBetaVersion == c.beta
        alphaVersion == c.alpha
    IN  IF sourceBranch = "alpha"
        THEN IF alphaVersion = Null
             THEN BaseResult(Null, MkError("getBaseVersion-beta", "noAlphaVersion", Null, ""), TRUE)
             ELSE BaseResult(alphaVersion, NoError, TRUE)
        ELSE IF currentBetaVersion = Null
             THEN BaseResult(Null, MkError("getBaseVersion-beta", "noBetaVersion", Null, ""), TRUE)
             ELSE IF alphaVersion # Null /\ getBaseVersionString(currentBetaVersion) # getBaseVersionString(alphaVersion)
                  THEN BaseResult(Null, MkError("getBaseVersion-beta", "baseMismatch", Null, ""), TRUE)
                  ELSE BaseResult(currentBetaVersion, NoError, TRUE)

\* base version resolution for main without the source-branch restriction
getMainBaseVersionAnySource(sourceBranch, c, prefix) ==
    IF c.beta = Null
    THEN BaseResult(Null, MkError("getBaseVersion-main", "noBetaVersion", Null, ""), TRUE)
    ELSE BaseResult(c.beta, NoError, TRUE)

getMainBaseVersion(sourceBranch, c, prefix) ==
    IF sourceBranch # "beta"
    THEN BaseResult(Null, MkError("getBaseVersion-main", "source", Null, ""), FALSE)
    ELSE IF c.beta = Null
         THEN BaseResult(Null, MkError("getBaseVersion-main", "noBetaVersion", Null, ""), TRUE)
         ELSE BaseResult(c.beta, NoError, TRUE)

getBaseVersion(targetBranch, sourceBranch, c, prefix) ==
    CASE targetBranch = "alpha" -> getAlphaBaseVersion(sourceBranch, c, prefix)
      [] targetBranch = "beta" -> getBetaBaseVersion(sourceBranch, c, prefix)
      [] targetBranch = "main" -> getMainBaseVersion(sourceBranch, c, prefix)
      [] OTHER -> BaseResult(Null, NoError, FALSE)

\* --------------------------------------------------------- strategies
\* A strategy yields the new version without prefix, or Null for "no version change".
\* a label-driven computation that always starts the line derived from main
calculateAlphaVersionAlwaysNewLine(ctxBaseVersion, releaseType, c) ==
    LET mainVersion == c.main
        mainBaseVersion == IF mainVersion # Null THEN getBaseVersionString(mainVersion) ELSE DEFAULT_VERSIONS_BASE
        targetBaseVersion == SemverInc(mainBaseVersion, releaseTypeMapping(releaseType), "")
    IN  [targetBaseVersion EXCEPT !.pre = "alpha", !.num = 0]

calculateAlphaVersion(ctxBaseVersion, releaseType, c) ==
    LET mainVersion == c.main
        mainBaseVersion == IF mainVersion # Null THEN getBaseVersionString(mainVersion) ELSE DEFAULT_VERSIONS_BASE
        baseReleaseType == releaseTypeMapping(releaseType)
        targetBaseVersion == SemverInc(mainBaseVersion, baseReleaseType, "")
        currentAlphaVersion == c.alpha
        currentAlphaBaseVersion == IF currentAlphaVersion # Null THEN getBaseVersionString(currentAlphaVersion)
                                   ELSE DEFAULT_VERSIONS_BASE
        incrementedVersion == SemverInc(currentAlphaVersion, "prerelease", "alpha")
    IN  IF targetBaseVersion = Null THEN ctxBaseVersion
        ELSE IF currentAlphaBaseVersion = mainBaseVersion
             THEN [targetBaseVersion EXCEPT !.pre = "alpha", !.num = 0]
             ELSE IF SemverGt(targetBaseVersion, currentAlphaBaseVersion)
                  THEN [targetBaseVersion EXCEPT !.pre = "alpha", !.num = 0]
                  ELSE IF incrementedVersion # Null THEN incrementedVersion ELSE currentAlphaVersion

AlphaStrategy(ctxBaseVersion, sourceBranch, labels, c) ==
    IF labels = {} THEN Null
    ELSE IF getReleaseTypeFromLabels(labels) = "null" THEN Null
    ELSE calculateAlphaVersion(ctxBaseVersion, getReleaseTypeFromLabels(labels), c)

BetaStrategy(ctxBaseVersion, sourceBranch, labels, c) ==
    IF sourceBranch = "alpha"
    THEN [getBaseVersionString(ctxBaseVersion) EXCEPT !.pre = "beta", !.num = 0]
    ELSE LET incrementedVersion == SemverInc(ctxBaseVersion, "prerelease", "beta")
         IN  IF incrementedVersion # Null THEN incrementedVersion ELSE ctxBaseVersion

\* a release strategy that forgets to strip the pre-release part
MainStrategyKeepsPrerelease(ctxBaseVersion, sourceBranch, labels, c) == ctxBaseVersion

MainStrategy(ctxBaseVersion, sourceBranch, labels, c) == getBaseVersionString(ctxBaseVersion)

\* strategy.execute of the strategy whose canHandle accepts the target branch
StrategyExecute(targetBranch, ctxBaseVersion, sourceBranch, labels, c) ==
    CASE targetBranch = "alpha" -> AlphaStrategy(ctxBaseVersion, sourceBranch, labels, c)
      [] targetBranch = "beta" -> BetaStrategy(ctxBaseVersion, sourceBranch, labels, c)
      [] targetBranch = "main" -> MainStrategy(ctxBaseVersion, sourceBranch, labels, c)

\* ===================================================================
\* Version strings as text: a string is the sequence of its characters.
\* Prefix stripping (src/src/core.ts versionParse, src/unnamed/part_008
\* cleanVersion), parseVersion with its pre-release repair and getTagType
\* act on the text of a tag.
\* ===================================================================

\* largest number used in a version of the input texts
MaxNum == 1

Digits == <<"0", "1", "2", "3", "4", "5", "6", "7", "8", "9">>

Letters == {"a", "b", "c", "d", "e", "f", "g", "h", "i", "j", "k", "l", "m", "n", "o", "p", "q", "r",
            "s", "t", "u", "v", "w", "x", "y", "z"}

IsDigit(c) == \E n \in 1..10 : Digits[n] = c

\* String.prototype.startsWith
StartsWith(s, p) == Len(p) <= Len(s) /\ SubSeq(s, 1, Len(p)) = p

\* String.prototype.slice(n)
Slice(s, n) == SubSeq(s, n + 1, Len(s))

\* String.prototype.includes
Includes(s, p) == \E i \in 1..(Len(s) - Len(p) + 1) : SubSeq(s, i, i + Len(p) - 1) = p

\* String.prototype.split / Array.prototype.join on one separator character
RECURSIVE Split(_, _)
Split(s, sep) ==
    LET hits == {i \in 1..Len(s) : s[i] = sep}
        first == CHOOSE i \in hits : \A j \in hits : i <= j
    IN  IF hits = {} THEN <<s>>
        ELSE <<SubSeq(s, 1, first - 1)>> \o Split(SubSeq(s, first + 1, Len(s)), sep)

RECURSIVE Join(_, _)
Join(parts, sep) ==
    IF Len(parts) = 0 THEN <<>>
    ELSE IF Len(parts) = 1 THEN parts[1]
    ELSE parts[1] \o <<sep>> \o Join(Tail(parts), sep)

\* decimal text of a number and back
RECURSIVE NumText(_)
NumText(n) == IF n < 10 THEN <<Digits[n + 1]>> ELSE NumText(n \div 10) \o <<Digits[(n % 10) + 1]>>

RECURSIVE TextNum(_)
TextNum(s) ==
    IF Len(s) = 0 THEN 0
    ELSE 10 * TextNum(SubSeq(s, 1, Len(s) - 1)) + ((CHOOSE n \in 1..10 : Digits[n] = s[Len(s)]) - 1)

\* the text of a supported prefix
Chars(p) ==
    CASE p = "v" -> <<"v">>
      [] p = "version-" -> <<"v", "e", "r", "s", "i", "o", "n", "-">>
      [] p = "ver-" -> <<"v", "e", "r", "-">>
      [] p = "rel-" -> <<"r", "e", "l", "-">>
      [] OTHER -> <<>>

ALPHA == <<"a", "l", "p", "h", "a">>

BETA == <<"b", "e", "t", "a">>

\* SUPPORTED_PREFIXES of src/src/core.ts, in the order of the array
SupportedPrefixList == <<"version-", "ver-", "rel-", "v">>

\* VERSION_PREFIX_CONFIG.supported of src/src/constants.ts, in the order of the array
VERSION_PREFIX_CONFIG_supported == <<"v", "version-", "ver-", "rel-">>

\* the loop of versionParse: the first supported prefix, in list order, the version starts with
FoundPrefix(version, list) ==
    LET hits == {i \in 1..Len(list) : StartsWith(version, Chars(list[i]))}
    IN  IF hits = {} THEN "" ELSE list[CHOOSE i \in hits : \A j \in hits : i <= j]

versionParse(version, currentPrefix) ==
    LET foundPrefix == FoundPrefix(version, SupportedPrefixList)
        clean == Slice(version, Len(Chars(foundPrefix)))
    IN  [original |-> version,
         pkgVersion |-> clean,
         targetVersion |-> Chars(currentPrefix) \o clean,
         prefix |-> currentPrefix,
         hasPrefix |-> foundPrefix # "",
         hasCurrentPrefix |-> foundPrefix = currentPrefix]

\* cleanVersion of src/unnamed/part_008: the current prefix is tried first, then the others
cleanVersionLegacy(version, currentPrefix) ==
    IF StartsWith(version, Chars(currentPrefix)) THEN Slice(version, Len(Chars(currentPrefix)))
    ELSE Slice(version, Len(Chars(FoundPrefix(version, VERSION_PREFIX_CONFIG_supported))))

cleanVersionStr(version, currentPrefix) == versionParse(version, currentPrefix).pkgVersion

normalizeVersionStr(version, currentPrefix) == versionParse(version, currentPrefix).targetVersion

\* ---- semver.parse on text
NullSemVer == [valid |-> FALSE, major |-> 0, minor |-> 0, patch |-> 0, prerelease |-> <<>>]

\* NUMERICIDENTIFIER: 0|[1-9]\d*
IsNumericIdentifier(s) ==
    /\ Len(s) > 0
    /\ \A i \in 1..Len(s) : IsDigit(s[i])
    /\ Len(s) > 1 => s[1] # "0"

\* NONNUMERICIDENTIFIER: \d*[a-zA-Z-][a-zA-Z0-9-]*
IsNonNumericIdentifier(s) ==
    /\ \A i \in 1..Len(s) : IsDigit(s[i]) \/ s[i] \in Letters \/ s[i] = "-"
    /\ \E i \in 1..Len(s) : s[i] \in Letters \/ s[i] = "-"

\* semver.parse: an optional leading v, three numeric identifiers, then an optional
\* pre-release of dot-separated identifiers after the first dash (build metadata is not
\* part of the texts considered)
semverParse(s) ==
    LET t == IF StartsWith(s, <<"v">>) THEN Slice(s, 1) ELSE s
        dashes == {i \in 1..Len(t) : t[i] = "-"}
        d == IF dashes = {} THEN Len(t) + 1 ELSE CHOOSE i \in dashes : \A j \in dashes : i <= j
        main == Split(SubSeq(t, 1, d - 1), ".")
        pre == IF dashes = {} THEN <<>> ELSE Split(SubSeq(t, d + 1, Len(t)), ".")
        valid == /\ Len(main) = 3
                 /\ \A i \in 1..Len(main) : IsNumericIdentifier(main[i])
                 /\ \A i \in 1..Len(pre) : IsNumericIdentifier(pre[i]) \/ IsNonNumericIdentifier(pre[i])
    IN  IF ~valid THEN NullSemVer
        ELSE [valid |-> TRUE, major |-> TextNum(main[1]), minor |-> TextNum(main[2]),
              patch |-> TextNum(main[3]), prerelease |-> pre]

\* SemVer.toString(): the canonical text of a parsed version
semverToString(sv) ==
    NumText(sv.major) \o <<".">> \o NumText(sv.minor) \o <<".">> \o NumText(sv.patch)
        \o (IF Len(sv.prerelease) = 0 THEN <<>> ELSE <<"-">> \o Join(sv.prerelease, "."))

\* String.prototype.replace(/-0-(alpha|beta)\./, '-$1.'): the first match only
repairPrerelease(s) ==
    LET hits == {i \in 1..Len(s) :
                    /\ StartsWith(Slice(s, i - 1), <<"-", "0", "-">>)
                    /\ \/ StartsWith(Slice(s, i + 2), ALPHA \o <<".">>)
                       \/ StartsWith(Slice(s, i + 2), BETA \o <<".">>)}
        first == CHOOSE i \in hits : \A j \in hits : i <= j
    IN  IF hits = {} THEN s ELSE SubSeq(s, 1, first) \o Slice(s, first + 2)

parseVersionNoRepair(version, currentPrefix) == semverParse(cleanVersionStr(version, currentPrefix))

parseVersionStr(version, currentPrefix) ==
    semverParse(repairPrerelease(cleanVersionStr(version, currentPrefix)))

ZERO_BASE == <<"0", ".", "0", ".", "0">>

getBaseVersionStringStr(version, currentPrefix) ==
    LET parsed == parseVersionStr(version, currentPrefix)
    IN  IF ~parsed.valid THEN ZERO_BASE
        ELSE NumText(parsed.major) \o <<".">> \o NumText(parsed.minor) \o <<".">> \o NumText(parsed.patch)

\* VersionManager.getTagType on the text of a tag
getTagTypeStr(tag) ==
    IF Includes(tag, <<"-">> \o ALPHA \o <<".">>) THEN "alpha"
    ELSE IF Includes(tag, <<"-">> \o BETA \o <<".">>) THEN "beta"
    ELSE IF ~Includes(tag, <<"-">>) THEN "release"
    ELSE "unknown"

\* parseMainVersion's test: the tag can be picked as the latest main version
isMainTagStr(tag) == ~Includes(tag, <<"-">>)

\* createUpgradeContext: null for a base version that does not parse
createUpgradeContext(baseVersion, currentPrefix) ==
    LET parsed == parseVersionStr(baseVersion, currentPrefix)
    IN  IF ~parsed.valid THEN "null"
        ELSE IF Len(parsed.prerelease) > 0 THEN "prerelease" ELSE "release"

\* calculateVersionUpgrade up to the strategy manager: null without a context
calculateVersionUpgrade(baseVersion, currentPrefix) ==
    IF createUpgradeContext(baseVersion, currentPrefix) = "null" THEN "null" ELSE "upgrade"

\* ------------------------------------------------------------- state
VARIABLES
    prefix,         \* VERSION_PREFIX_CONFIG.CURRENT
    supported,      \* SUPPORTED_BRANCHES
    tags,           \* version tags of the repository, newest first
    pc,             \* position of the current run
    req,            \* the pull request of the current run
    cache,          \* VersionManager.cache
    isInitialized,  \* VersionManager.isInitialized
    baseVersion,    \* base version resolved by getBaseVersion
    gate,           \* outcome of validateBranchVersionState in this run
    executed,       \* a strategy's execute has been invoked in this run
    newVersion,     \* result of calculateNewVersion
    error,          \* error that ended the run
    commented,      \* a preview comment was posted
    tagged,         \* the version commit and tag were created in this run
    synced,         \* syncBranches ran in this run
    listedTags,     \* tag list the first initialize of this run obtained
    gateSaw,        \* latestTag the branch state gate obtained
    runFailed,      \* core.setFailed was called
    errorComment,   \* error comment handleWorkflowError attempted on the pull request
    outputVersion   \* version set on the action outputs (Null for the empty string)

vars == <<prefix, supported, tags, pc, req, cache, isInitialized, baseVersion, gate, executed,
          newVersion, error, commented, tagged, synced, listedTags, gateSaw, runFailed,
          errorComment, outputVersion>>

config == <<prefix, supported>>

\* state of one execution-mode run of src/src/git.ts (handleExecutionMode onwards)
VARIABLES
    rpc,              \* position of the execution-mode run
    targetBranch,     \* branch the version is published on
    eventName,        \* context.eventName
    headCommit,       \* markers contained in context.payload.head_commit.message
    npmMode,          \* npm publishing: disabled, strict or lenient
    gitLog,           \* execGit calls so far, each with its result
    attempt,          \* loop counter of safePushWithRetry
    waits,            \* delays safePushWithRetry has waited
    publish,          \* outcome of handleNpmPublish
    mergeInProgress,  \* the working tree has an unconcluded merge (MERGE_HEAD)
    rebaseInProgress, \* the working tree has an unconcluded rebase
    remoteTag,        \* the version tag exists on the remote
    remoteBump,       \* the remote target branch contains the version-bump commit
    remoteSynced,     \* sync edges whose result has been pushed
    edge,             \* <<source, target>> of the sync edge in progress
    edgeResult,       \* BranchSyncResult the edge in progress returns
    results,          \* result list of syncBranches
    issues,           \* tracking issues created
    thrown            \* an exception escaped handleExecutionMode

relVars == <<rpc, targetBranch, eventName, headCommit, npmMode, gitLog, attempt, waits, publish,
             mergeInProgress, rebaseInProgress, remoteTag, remoteBump, remoteSynced, edge,
             edgeResult, results, issues, thrown>>

NoResult == [success |-> FALSE, version |-> "", error |-> "", conflicts |-> <<>>]

\* no execution-mode run has started
ReleaseIdle ==
    /\ rpc = "idle"
    /\ targetBranch = ""
    /\ eventName = ""
    /\ headCommit = {}
    /\ npmMode = ""
    /\ gitLog = <<>>
    /\ attempt = 0
    /\ waits = 0
    /\ publish = ""
    /\ mergeInProgress = FALSE
    /\ rebaseInProgress = FALSE
    /\ remoteTag = FALSE
    /\ remoteBump = FALSE
    /\ remoteSynced = {}
    /\ edge = <<>>
    /\ edgeResult = NoResult
    /\ results = <<>>
    /\ issues = {}
    /\ thrown = FALSE

\* one application of the version-string functions to the text of a tag
VARIABLES
    tpc,            \* next function to apply
    input,          \* the parts the tag text is made of
    parseResult,    \* versionParse(tag)
    legacyClean,    \* cleanVersion(tag) of src/unnamed/part_008
    parsed,         \* parseVersion(tag)
    roundTrip,      \* normalizeVersion of the canonical text of parsed
    tagType,        \* getTagType(tag)
    mainEligible,   \* parseMainVersion's test on the tag
    baseString,     \* getBaseVersionString(tag)
    upgrade         \* calculateVersionUpgrade(tag, ...)

textVars == <<tpc, input, parseResult, legacyClean, parsed, roundTrip, tagType, mainEligible,
              baseString, upgrade>>

\* Two runs pushing the same version to one remote (src/src/git.ts commitAndPushVersion)
VARIABLES
    originBranch,   \* commits of the target branch on the remote, oldest first
    originTag,      \* commit the version tag points to on the remote, NoCommit when absent
    externalPushes, \* commits other actors pushed to the remote target branch
    cpc,            \* position of each run in commitAndPushVersion
    localBranch,    \* commits of each run's local target branch
    localTag,       \* commit each run's local version tag points to
    trackingRef,    \* origin/<target> as each run last saw it
    pushAttempt     \* `attempt` of each run's safePushWithRetry

pushVars == <<originBranch, originTag, externalPushes, cpc, localBranch, localTag, trackingRef,
              pushAttempt>>

allVars == <<vars, relVars, textVars, pushVars>>

Runners == {1, 2}

NoCommit == [kind |-> "none", by |-> 0, n |-> 0]

\* the commit both runs checked out
BaseCommit == [kind |-> "base", by |-> 0, n |-> 0]

\* no run has committed and the remote target branch is at the checked-out commit
PushIdle ==
    /\ originBranch = <<BaseCommit>>
    /\ originTag = NoCommit
    /\ externalPushes = 0
    /\ cpc = [r \in Runners |-> "idle"]
    /\ localBranch = [r \in Runners |-> <<BaseCommit>>]
    /\ localTag = [r \in Runners |-> NoCommit]
    /\ trackingRef = [r \in Runners |-> <<BaseCommit>>]
    /\ pushAttempt = [r \in Runners |-> 0]

NoInput == [pfx |-> "", major |-> 0, minor |-> 0, patch |-> 0, kind |-> <<>>, num |-> 0, form |-> ""]

NoParse == versionParse(<<>>, "")

\* no tag text has been drawn
TextIdle ==
    /\ tpc = "idle"
    /\ input = NoInput
    /\ parseResult = NoParse
    /\ legacyClean = <<>>
    /\ parsed = NullSemVer
    /\ roundTrip = <<>>
    /\ tagType = ""
    /\ mainEligible = FALSE
    /\ baseString = <<>>
    /\ upgrade = ""

Requests == [target : SupportedBranch, source : SourceBranches, labels : LabelSets, merged : BOOLEAN]

NoComment == [context |-> "", posted |-> FALSE]

\* no pull-request event has been processed and the repository has no version tag
RunIdle ==
    /\ tags = <<>>
    /\ pc = "idle"
    /\ req = NoRequest
    /\ cache = EmptyCache
    /\ isInitialized = FALSE
    /\ baseVersion = Null
    /\ gate = "none"
    /\ executed = FALSE
    /\ newVersion = Null
    /\ error = NoError
    /\ commented = FALSE
    /\ tagged = FALSE
    /\ synced = FALSE
    /\ listedTags = <<>>
    /\ gateSaw = Null
    /\ runFailed = FALSE
    /\ errorComment = NoComment
    /\ outputVersion = Null

Init ==
    /\ prefix \in SUPPORTED_PREFIXES
    /\ supported \in SupportedBranchConfigs
    /\ RunIdle
    /\ ReleaseIdle
    /\ TextIdle
    /\ PushIdle

isSupportedBranchAny(branch) == TRUE

isSupportedBranch(branch) == branch \in supported

\* run() up to validateAndExtractPRInfo: a fresh process for one pull-request event
StartRun(r) ==
    /\ pc \in {"idle", "done"} \/ (pc = "failed" /\ runFailed)
    /\ r.merged => Len(tags) < MaxTags
    /\ req' = r
    /\ pc' = IF isSupportedBranch(r.target) THEN "getBase" ELSE "done"
    /\ cache' = EmptyCache
    /\ isInitialized' = FALSE
    /\ baseVersion' = Null
    /\ gate' = "none"
    /\ executed' = FALSE
    /\ newVersion' = Null
    /\ error' = NoError
    /\ commented' = FALSE
    /\ tagged' = FALSE
    /\ synced' = FALSE
    /\ listedTags' = <<>>
    /\ gateSaw' = Null
    /\ runFailed' = FALSE
    /\ errorComment' = NoComment
    /\ outputVersion' = Null
    /\ UNCHANGED <<config, tags>>
    /\ UNCHANGED <<relVars, textVars, pushVars>>

\* processVersionCalculation: the first getBaseVersion call (the displayed base version)
ProcessVersionCalculation ==
    /\ pc = "getBase"
    /\ LET snapshot == initialize(cache, isInitialized, tags, prefix)
           r == getBaseVersion(req.target, req.source, snapshot, prefix)
       IN  /\ cache' = IF r.usedCache THEN snapshot ELSE cache
           /\ isInitialized' = (isInitialized \/ r.usedCache)
           /\ listedTags' = IF ~isInitialized /\ r.usedCache THEN tags ELSE listedTags
           /\ baseVersion' = r.value
           /\ error' = r.error
           /\ pc' = IF r.error # NoError THEN "failed" ELSE "calc"
    /\ UNCHANGED <<config, tags, req, gate, executed, newVersion, commented, tagged, synced>>
    /\ UNCHANGED <<gateSaw, runFailed, errorComment, outputVersion>>
    /\ UNCHANGED <<relVars, textVars, pushVars>>

\* calculateNewVersion up to upgradeManager.upgrade: getBaseVersion again, then createUpgradeContext
CalculateNewVersion ==
    /\ pc = "calc"
    /\ LET snapshot == initialize(cache, isInitialized, tags, prefix)
           r == getBaseVersion(req.target, req.source, snapshot, prefix)
       IN  /\ cache' = IF r.usedCache THEN snapshot ELSE cache
           /\ isInitialized' = (isInitialized \/ r.usedCache)
           /\ listedTags' = IF ~isInitialized /\ r.usedCache THEN tags ELSE listedTags
           /\ baseVersion' = r.value
           /\ error' = r.error
           /\ pc' = IF r.error # NoError THEN "failed"
                    ELSE IF r.value = Null \/ parseVersion(r.value) = Null THEN "workflow"
                    ELSE "validate"
    /\ UNCHANGED <<config, tags, req, gate, executed, newVersion, commented, tagged, synced>>
    /\ UNCHANGED <<gateSaw, runFailed, errorComment, outputVersion>>
    /\ UNCHANGED <<relVars, textVars, pushVars>>

\* the gate with its rejection not propagated: upgrade goes on to the strategy
ValidateNoThrow ==
    /\ pc = "validate"
    /\ LET e == validateBranchVersionState(req.target, tags)
       IN  /\ gate' = IF e = NoError THEN "passed" ELSE "rejected"
           /\ gateSaw' = getLatestTag(tags)
           /\ error' = e
           /\ pc' = "execute"
    /\ UNCHANGED <<config, tags, req, cache, isInitialized, baseVersion, executed, newVersion,
                   commented, tagged, synced>>
    /\ UNCHANGED <<listedTags, runFailed, errorComment, outputVersion>>
    /\ UNCHANGED <<relVars, textVars, pushVars>>

\* VersionUpgradeManager.upgrade, first half: the branch state gate
Validate ==
    /\ pc = "validate"
    /\ LET e == validateBranchVersionState(req.target, tags)
       IN  /\ gate' = IF e = NoError THEN "passed" ELSE "rejected"
           /\ gateSaw' = getLatestTag(tags)
           /\ error' = e
           /\ pc' = IF e = NoError THEN "execute" ELSE "failed"
    /\ UNCHANGED <<config, tags, req, cache, isInitialized, baseVersion, executed, newVersion,
                   commented, tagged, synced>>
    /\ UNCHANGED <<listedTags, runFailed, errorComment, outputVersion>>
    /\ UNCHANGED <<relVars, textVars, pushVars>>

\* VersionUpgradeManager.upgrade, second half: strategy.execute, then calculateVersionUpgrade
\* puts the prefix on a non-null result
Execute ==
    /\ pc = "execute"
    /\ LET result == StrategyExecute(req.target, cleanVersion(baseVersion), req.source, req.labels, cache)
       IN  newVersion' = IF result = Null THEN Null ELSE addVersionPrefix(result, prefix)
    /\ executed' = TRUE
    /\ pc' = "workflow"
    /\ UNCHANGED <<config, tags, req, cache, isInitialized, baseVersion, gate, error, commented,
                   tagged, synced>>
    /\ UNCHANGED <<listedTags, gateSaw, runFailed, errorComment, outputVersion>>
    /\ UNCHANGED <<relVars, textVars, pushVars>>

\* executeWorkflow entering handleExecutionMode whenever there is a new version
ExecuteWorkflowAlwaysExecutes ==
    /\ pc = "workflow"
    /\ commented' = commented
    /\ pc' = IF newVersion = Null THEN "done" ELSE "tag"
    /\ outputVersion' = IF newVersion = Null THEN Null ELSE outputVersion
    /\ UNCHANGED <<config, tags, req, cache, isInitialized, baseVersion, gate, executed, newVersion,
                   error, tagged, synced>>
    /\ UNCHANGED <<listedTags, gateSaw, runFailed, errorComment>>
    /\ UNCHANGED <<relVars, textVars, pushVars>>

\* executeWorkflow: runPreviewWorkflow (comment, outputs) for an open pull request;
\* runExecutionWorkflow for a merged one, which ends here when there is no new version
ExecuteWorkflow ==
    /\ pc = "workflow"
    /\ IF ~req.merged
       THEN commented' = TRUE /\ pc' = "done" /\ outputVersion' = newVersion
       ELSE /\ commented' = commented
            /\ pc' = IF newVersion = Null THEN "done" ELSE "tag"
            /\ outputVersion' = IF newVersion = Null THEN Null ELSE outputVersion
    /\ UNCHANGED <<config, tags, req, cache, isInitialized, baseVersion, gate, executed, newVersion,
                   error, tagged, synced>>
    /\ UNCHANGED <<listedTags, gateSaw, runFailed, errorComment>>
    /\ UNCHANGED <<relVars, textVars, pushVars>>

TagExists(allTags, t) == \E i \in 1..Len(allTags) : allTags[i] = t

\* handleExecutionMode, updateVersionAndCreateTag: `git tag` fails on an existing tag
UpdateVersionAndCreateTag ==
    /\ pc = "tag"
    /\ IF TagExists(tags, newVersion)
       THEN /\ error' = MkError("updateVersionAndCreateTag", "tagExists", newVersion, "")
            /\ pc' = "failed"
            /\ UNCHANGED <<tags, tagged>>
       ELSE /\ tags' = <<newVersion>> \o tags
            /\ tagged' = TRUE
            /\ pc' = "sync"
            /\ UNCHANGED error
    /\ UNCHANGED <<config, req, cache, isInitialized, baseVersion, gate, executed, newVersion,
                   commented, synced>>
    /\ UNCHANGED <<listedTags, gateSaw, runFailed, errorComment, outputVersion>>
    /\ UNCHANGED <<relVars, textVars, pushVars>>

\* handleExecutionMode, syncBranches; then runExecutionWorkflow sets the next-version output
SyncBranches ==
    /\ pc = "sync"
    /\ synced' = TRUE
    /\ outputVersion' = newVersion
    /\ pc' = "done"
    /\ UNCHANGED <<config, tags, req, cache, isInitialized, baseVersion, gate, executed, newVersion,
                   error, commented, tagged>>
    /\ UNCHANGED <<listedTags, gateSaw, runFailed, errorComment>>
    /\ UNCHANGED <<relVars, textVars, pushVars>>

\* validateAndExtractPRInfo throws: the event is not a pull-request event
StartRunWithoutPullRequest ==
    /\ pc \in {"idle", "done"} \/ (pc = "failed" /\ runFailed)
    /\ req' = NoRequest
    /\ pc' = "failed"
    /\ error' = MkError("validateEvent", "unsupportedEvent", Null, "")
    /\ cache' = EmptyCache
    /\ isInitialized' = FALSE
    /\ baseVersion' = Null
    /\ gate' = "none"
    /\ executed' = FALSE
    /\ newVersion' = Null
    /\ commented' = FALSE
    /\ tagged' = FALSE
    /\ synced' = FALSE
    /\ listedTags' = <<>>
    /\ gateSaw' = Null
    /\ runFailed' = FALSE
    /\ errorComment' = NoComment
    /\ outputVersion' = Null
    /\ UNCHANGED <<config, tags>>
    /\ UNCHANGED <<relVars, textVars, pushVars>>

\* context of the error that reaches the catch of run(): calculateNewVersion wraps what is
\* thrown inside it (the gate's rejection) into an ActionError of its own context
ReachingContext(e) ==
    IF e.context = "validateBranchVersionState" THEN "calculateNewVersion" ELSE e.context

\* handleWorkflowError without the error comment
HandleWorkflowErrorNoComment ==
    /\ pc = "failed"
    /\ ~runFailed
    /\ runFailed' = TRUE
    /\ UNCHANGED <<config, tags, pc, req, cache, isInitialized, baseVersion, gate, executed,
                   newVersion, error, commented, tagged, synced>>
    /\ UNCHANGED <<listedTags, gateSaw, errorComment, outputVersion>>
    /\ UNCHANGED <<relVars, textVars, pushVars>>

\* handleWorkflowError: setFailed, then createErrorComment when the payload has a pull
\* request; a failure to post is caught and logged
HandleWorkflowError ==
    /\ pc = "failed"
    /\ ~runFailed
    /\ runFailed' = TRUE
    /\ IF req = NoRequest
       THEN errorComment' = errorComment
       ELSE \E posted \in BOOLEAN :
                errorComment' = [context |-> ReachingContext(error), posted |-> posted]
    /\ UNCHANGED <<config, tags, pc, req, cache, isInitialized, baseVersion, gate, executed,
                   newVersion, error, commented, tagged, synced>>
    /\ UNCHANGED <<listedTags, gateSaw, outputVersion>>
    /\ UNCHANGED <<relVars, textVars, pushVars>>

Next ==
    \/ \E r \in Requests : StartRun(r)
    \/ ProcessVersionCalculation
    \/ CalculateNewVersion
    \/ Validate
    \/ Execute
    \/ ExecuteWorkflow
    \/ UpdateVersionAndCreateTag
    \/ SyncBranches
    \/ StartRunWithoutPullRequest
    \/ HandleWorkflowError

Spec == Init /\ [][Next]_vars

\* ===================================================================
\* The same run in its environment: other actors create tags while the
\* run is between two steps, and `git tag -l` can fail.
\* ===================================================================

\* tags pushed by another workflow run or by a developer
ExternalTags == {MkVersion(prefix, 9, 0, 0, "", 0), MkVersion(prefix, 9, 0, 0, "beta", 0)}

\* a tag is created between the inventory's listing and the gate's
ExternalTag(t) ==
    /\ pc \in {"calc", "validate"}
    /\ Len(tags) < MaxTags
    /\ \A i \in 1..Len(tags) : tags[i] \notin ExternalTags
    /\ tags' = <<t>> \o tags
    /\ UNCHANGED <<config, pc, req, cache, isInitialized, baseVersion, gate, executed, newVersion,
                   error, commented, tagged, synced>>
    /\ UNCHANGED <<listedTags, gateSaw, runFailed, errorComment, outputVersion>>
    /\ UNCHANGED <<relVars, textVars, pushVars>>

\* what the run keeps of a tag listing that failed
ListFailure == <<Null>>

\* a failed listing taken for an empty tag list
GetAllTagsFailsSilently ==
    /\ pc = "getBase"
    /\ ~isInitialized
    /\ getBaseVersion(req.target, req.source, EmptyCache, prefix).usedCache
    /\ listedTags' = ListFailure
    /\ LET r == getBaseVersion(req.target, req.source, EmptyCache, prefix)
       IN  /\ cache' = EmptyCache
           /\ isInitialized' = TRUE
           /\ baseVersion' = r.value
           /\ error' = r.error
           /\ pc' = IF r.error # NoError THEN "failed" ELSE "calc"
    /\ UNCHANGED <<config, tags, req, gate, executed, newVersion, commented, tagged, synced>>
    /\ UNCHANGED <<gateSaw, runFailed, errorComment, outputVersion>>
    /\ UNCHANGED <<relVars, textVars, pushVars>>

\* processVersionCalculation when `git tag -l` fails: execGitWithOutput throws out of
\* getAllTags, initialize and getBaseVersion, before the cache is filled or marked
GetAllTagsFails ==
    /\ pc = "getBase"
    /\ ~isInitialized
    /\ getBaseVersion(req.target, req.source, EmptyCache, prefix).usedCache
    /\ listedTags' = ListFailure
    /\ error' = MkError("git tag -l", "gitFailed", Null, "")
    /\ pc' = "failed"
    /\ UNCHANGED <<config, tags, req, cache, isInitialized, baseVersion, gate, executed, newVersion,
                   commented, tagged, synced>>
    /\ UNCHANGED <<gateSaw, runFailed, errorComment, outputVersion>>
    /\ UNCHANGED <<relVars, textVars, pushVars>>

\* runs start while the repository has fewer tags than this
MaxEnvTags == 3

NextEnv ==
    \/ \E r \in Requests : Len(tags) < MaxEnvTags /\ StartRun(r)
    \/ ProcessVersionCalculation
    \/ CalculateNewVersion
    \/ Validate
    \/ Execute
    \/ ExecuteWorkflow
    \/ UpdateVersionAndCreateTag
    \/ SyncBranches
    \/ HandleWorkflowError
    \/ \E t \in ExternalTags : ExternalTag(t)
    \/ GetAllTagsFails

\* the default prefix and the three tracked branches
InitEnv == Init /\ prefix = "v" /\ supported = SupportedBranch

SpecEnv == InitEnv /\ [][NextEnv]_vars

\* ===================================================================
\* The promotion cycle: pull requests of the documented branch flow,
\* hotfix pull requests included, under the default prefix.
\* ===================================================================

\* a branch created from main for an urgent fix: its name starts with hotfix/
HotfixBranch == "hotfix/fix"

CycleSources == {"feature", "alpha", "beta", HotfixBranch}

\* a version label alone, or together with the hotfix marker label
CycleLabelSets == {{"patch"}, {"minor"}, {"hotfix", "patch"}}

CycleRequests == [target : SupportedBranch, source : CycleSources, labels : CycleLabelSets, merged : BOOLEAN]

NextCycle ==
    \/ \E r \in CycleRequests : StartRun(r)
    \/ ProcessVersionCalculation
    \/ CalculateNewVersion
    \/ Validate
    \/ Execute
    \/ ExecuteWorkflow
    \/ UpdateVersionAndCreateTag
    \/ SyncBranches
    \/ HandleWorkflowError

InitCycle == Init /\ prefix = "v"

SpecCycle == InitCycle /\ [][NextCycle]_vars

\* ===================================================================
\* The version-string functions applied to the text of one tag, under
\* each current prefix.
\* ===================================================================

RC == <<"r", "c">>

Kinds == {ALPHA, BETA, RC}

\* X.Y.Z, X.Y.Z-K.N, X.Y.Z-0-K.N, X.Y and a word that is no version
Forms == {"release", "prerelease", "malformed", "partial", "word"}

Inputs ==
    {i \in [pfx : {""} \cup SUPPORTED_PREFIXES, major : 0..MaxNum, minor : 0..MaxNum,
            patch : 0..MaxNum, kind : Kinds, num : 0..MaxNum, form : Forms] :
        /\ i.form \in {"release", "partial", "word"} => (i.kind = ALPHA /\ i.num = 0)
        /\ i.form \in {"partial", "word"} => i.patch = 0
        /\ i.form = "word" => (i.major = 0 /\ i.minor = 0)}

BaseText(i) == NumText(i.major) \o <<".">> \o NumText(i.minor) \o <<".">> \o NumText(i.patch)

BodyText(i) ==
    CASE i.form = "release" -> BaseText(i)
      [] i.form = "prerelease" -> BaseText(i) \o <<"-">> \o i.kind \o <<".">> \o NumText(i.num)
      [] i.form = "malformed" ->
             BaseText(i) \o <<"-", "0", "-">> \o i.kind \o <<".">> \o NumText(i.num)
      [] i.form = "partial" -> NumText(i.major) \o <<".">> \o NumText(i.minor)
      [] OTHER -> <<"f", "o", "o">>

\* the tag: a supported prefix, or none, in front of the body
TagText(i) == Chars(i.pfx) \o BodyText(i)

InitText ==
    /\ prefix \in SUPPORTED_PREFIXES
    /\ supported = SupportedBranch
    /\ RunIdle
    /\ ReleaseIdle
    /\ PushIdle
    /\ tpc = "versionParse"
    /\ input \in Inputs
    /\ parseResult = NoParse
    /\ legacyClean = <<>>
    /\ parsed = NullSemVer
    /\ roundTrip = <<>>
    /\ tagType = ""
    /\ mainEligible = FALSE
    /\ baseString = <<>>
    /\ upgrade = ""

VersionParse ==
    /\ tpc = "versionParse"
    /\ parseResult' = versionParse(TagText(input), prefix)
    /\ tpc' = "cleanVersion"
    /\ UNCHANGED <<input, legacyClean, parsed, roundTrip, tagType, mainEligible, baseString, upgrade>>
    /\ UNCHANGED <<vars, relVars, pushVars>>

CleanVersionLegacy ==
    /\ tpc = "cleanVersion"
    /\ legacyClean' = cleanVersionLegacy(TagText(input), prefix)
    /\ tpc' = "parseVersion"
    /\ UNCHANGED <<input, parseResult, parsed, roundTrip, tagType, mainEligible, baseString, upgrade>>
    /\ UNCHANGED <<vars, relVars, pushVars>>

ParseVersion ==
    /\ tpc = "parseVersion"
    /\ parsed' = parseVersionStr(TagText(input), prefix)
    /\ tpc' = "roundTrip"
    /\ UNCHANGED <<input, parseResult, legacyClean, roundTrip, tagType, mainEligible, baseString,
                   upgrade>>
    /\ UNCHANGED <<vars, relVars, pushVars>>

\* normalizeVersion of the canonical text of the parsed version, when there is one
RoundTrip ==
    /\ tpc = "roundTrip"
    /\ roundTrip' = IF parsed.valid THEN normalizeVersionStr(semverToString(parsed), prefix) ELSE <<>>
    /\ tpc' = "getTagType"
    /\ UNCHANGED <<input, parseResult, legacyClean, parsed, tagType, mainEligible, baseString, upgrade>>
    /\ UNCHANGED <<vars, relVars, pushVars>>

GetTagType ==
    /\ tpc = "getTagType"
    /\ tagType' = getTagTypeStr(TagText(input))
    /\ mainEligible' = isMainTagStr(TagText(input))
    /\ tpc' = "upgrade"
    /\ UNCHANGED <<input, parseResult, legacyClean, parsed, roundTrip, baseString, upgrade>>
    /\ UNCHANGED <<vars, relVars, pushVars>>

\* the tag as a base version: getBaseVersionString and calculateVersionUpgrade
CalculateVersionUpgrade ==
    /\ tpc = "upgrade"
    /\ baseString' = getBaseVersionStringStr(TagText(input), prefix)
    /\ upgrade' = calculateVersionUpgrade(TagText(input), prefix)
    /\ tpc' = "done"
    /\ UNCHANGED <<input, parseResult, legacyClean, parsed, roundTrip, tagType, mainEligible>>
    /\ UNCHANGED <<vars, relVars, pushVars>>

NextText ==
    \/ VersionParse
    \/ CleanVersionLegacy
    \/ ParseVersion
    \/ RoundTrip
    \/ GetTagType
    \/ CalculateVersionUpgrade

SpecText == InitText /\ [][NextText]_allVars

\* ===================================================================
\* Execution mode: updateVersionAndCreateTag, then syncBranches (src/src/git.ts)
\*
\* An execGit call is logged as [args, res]: res is "ok" when the command
\* succeeded, "conflict" when a merge or rebase stopped on conflicts (it is
\* then left in progress) and "error" for any other failure.  execGit throws
\* unless res is "ok".
\* ===================================================================

\* RETRY_CONFIG.MAX_ATTEMPTS, the default of safePushWithRetry's maxRetries
MAX_ATTEMPTS == 3

EventNames == {"push", "pull_request"}

\* a commit message is the set of the marker phrases it includes
HeadCommitMessages ==
    {{}, {"[skip ci]"}, {"chore: sync"}, {"chore: bump version"}, {"chore: sync", "[skip ci]"}}

NpmModes == {"disabled", "strict", "lenient"}

\* versionParse(newVersion).targetVersion of the run
fullVersion == "v1.0.0"

inputs == <<targetBranch, eventName, headCommit, npmMode>>

tree == <<mergeInProgress, rebaseInProgress>>

remoteState == <<remoteTag, remoteBump, remoteSynced>>

pushLoop == <<attempt, waits>>

syncState == <<edge, edgeResult, results, issues>>

Git(args, res) == [args |-> args, res |-> res]

Res(ok) == IF ok THEN "ok" ELSE "error"

isAutoSyncCommitAlways(message) == TRUE

isAutoSyncCommit(message) ==
    LET isSkipCI == "[skip ci]" \in message
        isSyncCommit == "chore: sync" \in message \/ "chore: bump version" \in message
    IN  isSkipCI \/ isSyncCommit

getCommitMessage(sourceBranch, target) ==
    IF sourceBranch = "main" /\ target = "beta" THEN "SYNC_MAIN_TO_BETA [skip ci]"
    ELSE IF sourceBranch = "beta" /\ target = "alpha" THEN "SYNC_BETA_TO_ALPHA [skip ci]"
    ELSE "chore: sync [skip ci]"

\* the exception leaves handleExecutionMode
Throw == thrown' = TRUE /\ rpc' = "failed"

\* handleExecutionMode is entered for a merged pull request with a new version
HandleExecutionMode(t, e, m, n) ==
    /\ rpc = "idle"
    /\ targetBranch' = t
    /\ eventName' = e
    /\ headCommit' = m
    /\ npmMode' = n
    /\ rpc' = "switch"
    /\ UNCHANGED <<gitLog, pushLoop, publish, tree, remoteState, syncState, thrown>>
    /\ UNCHANGED <<vars, textVars, pushVars>>

\* updateVersionAndCreateTag: git switch, rev-parse HEAD, updatePackageVersion
SwitchTarget ==
    /\ rpc = "switch"
    /\ \E ok \in BOOLEAN :
          /\ gitLog' = Append(gitLog, Git(<<"switch", targetBranch>>, Res(ok)))
          /\ IF ok THEN rpc' = "commit" /\ thrown' = thrown ELSE Throw
    /\ UNCHANGED <<inputs, pushLoop, publish, tree, remoteState, syncState>>
    /\ UNCHANGED <<vars, textVars, pushVars>>

\* commitAndPushVersion up to the call of safePushWithRetry: add, commit, tag
CommitAndPushVersion ==
    /\ rpc = "commit"
    /\ \E ok \in BOOLEAN :
          /\ gitLog' = gitLog \o <<Git(<<"add", ".">>, "ok"),
                                   Git(<<"commit", "-m", "VERSION_BUMP">>, "ok"),
                                   Git(<<"tag", fullVersion>>, Res(ok))>>
          /\ IF ok
             THEN rpc' = "push" /\ attempt' = 1 /\ thrown' = thrown
             ELSE Throw /\ attempt' = attempt
    /\ UNCHANGED <<inputs, waits, publish, tree, remoteState, syncState>>
    /\ UNCHANGED <<vars, textVars, pushVars>>

safePushBranch(branch) == <<"push", "origin", branch>>

\* safePushWithRetry, the try block of one iteration: fetch and rebase before a
\* retry, then push the branch, then push the tag
AttemptPush ==
    /\ rpc = "push"
    /\ \E o \in {"retryFail", "branchFail", "tagFail", "ok"} :
          /\ o = "retryFail" => attempt > 1
          /\ LET prep == IF attempt > 1
                         THEN <<Git(<<"fetch", "origin", targetBranch>>, "ok"),
                                Git(<<"rebase", "origin/", targetBranch>>, Res(o # "retryFail"))>>
                         ELSE <<>>
                 pushB == IF o = "retryFail" THEN <<>>
                          ELSE <<Git(safePushBranch(targetBranch), Res(o # "branchFail"))>>
                 pushT == IF o \in {"retryFail", "branchFail"} THEN <<>>
                          ELSE <<Git(<<"push", "origin", fullVersion>>, Res(o = "ok"))>>
             IN  gitLog' = gitLog \o prep \o pushB \o pushT
          /\ remoteBump' = (remoteBump \/ o \in {"tagFail", "ok"})
          /\ remoteTag' = (remoteTag \/ o = "ok")
          /\ rpc' = IF o = "ok" THEN "changelog" ELSE "pushCatch"
    /\ UNCHANGED <<inputs, pushLoop, publish, tree, remoteSynced, syncState, thrown>>
    /\ UNCHANGED <<vars, textVars, pushVars>>

\* the catch block with the final attempt's failure retried like any other
HandlePushAttemptErrorNoRaise ==
    /\ rpc = "pushCatch"
    /\ IF attempt > MAX_ATTEMPTS
       THEN Throw /\ UNCHANGED pushLoop
       ELSE /\ waits' = waits + 1
            /\ attempt' = attempt + 1
            /\ rpc' = "push"
            /\ thrown' = thrown
    /\ UNCHANGED <<inputs, gitLog, publish, tree, remoteState, syncState>>
    /\ UNCHANGED <<vars, textVars, pushVars>>

\* safePushWithRetry, the catch block of one iteration and the loop increment
HandlePushAttemptError ==
    /\ rpc = "pushCatch"
    /\ IF attempt = MAX_ATTEMPTS
       THEN Throw /\ UNCHANGED pushLoop
       ELSE /\ waits' = waits + 1
            /\ attempt' = attempt + 1
            /\ rpc' = "push"
            /\ thrown' = thrown
    /\ UNCHANGED <<inputs, gitLog, publish, tree, remoteState, syncState>>
    /\ UNCHANGED <<vars, textVars, pushVars>>

\* updateChangelog, hasChangelogChanges, commitChangelog -> commitAndPushFile:
\* one plain push of HEAD to the target branch
CommitChangelog ==
    /\ rpc = "changelog"
    /\ \E o \in {"nochange", "commitFail", "pushFail", "ok"} :
          /\ gitLog' = gitLog \o
                (IF o = "nochange" THEN <<>>
                 ELSE <<Git(<<"add", "CHANGELOG.md">>, "ok"),
                        Git(<<"commit", "-m", "CHANGELOG_UPDATE">>, Res(o # "commitFail"))>>) \o
                (IF o \in {"pushFail", "ok"}
                 THEN <<Git(<<"push", "origin", "HEAD:refs/heads/", targetBranch>>, Res(o = "ok"))>>
                 ELSE <<>>)
          /\ IF o = "ok" THEN rpc' = "publish" /\ thrown' = thrown ELSE Throw
    /\ UNCHANGED <<inputs, pushLoop, publish, tree, remoteState, syncState>>
    /\ UNCHANGED <<vars, textVars, pushVars>>

\* handleNpmPublish: true when disabled or published; on a failed publish it
\* throws in strict mode and returns false otherwise
HandleNpmPublish ==
    /\ rpc = "publish"
    /\ \E ok \in BOOLEAN :
          /\ npmMode = "disabled" => ok
          /\ publish' = IF ok THEN "ok" ELSE IF npmMode = "strict" THEN "threw" ELSE "false"
          /\ rpc' = IF ok THEN "sync" ELSE "cleanup"
    /\ UNCHANGED <<inputs, gitLog, pushLoop, tree, remoteState, syncState, thrown>>
    /\ UNCHANGED <<vars, textVars, pushVars>>

restoreBranchPushForced(branch) == <<"push", "--force", "origin", branch>>

restoreBranchPush(branch) == <<"push", "--force-with-lease", "origin", branch>>

\* a cleanup that removes the tag and leaves the branch as it is
CleanupTagOnlyAfterPublishFailure ==
    /\ rpc = "cleanup"
    /\ \E o \in {"tagFail", "ok"} :
          /\ gitLog' = gitLog \o
                <<Git(<<"tag", "-d", fullVersion>>, "ok"),
                  Git(<<"push", "origin", ":refs/tags/", fullVersion>>, Res(o # "tagFail"))>>
          /\ remoteTag' = (remoteTag /\ o = "tagFail")
          /\ remoteBump' = remoteBump
          /\ IF o = "ok" /\ publish = "false"
             THEN rpc' = "sync" /\ thrown' = thrown
             ELSE Throw
    /\ UNCHANGED <<inputs, pushLoop, publish, tree, remoteSynced, syncState>>
    /\ UNCHANGED <<vars, textVars, pushVars>>

\* cleanupAfterPublishFailure: deleteTagSafely, then restoreBranchToSha; afterwards
\* updateVersionAndCreateTag rethrows a thrown publish error and otherwise returns
CleanupAfterPublishFailure ==
    /\ rpc = "cleanup"
    /\ \E o \in {"tagFail", "restoreFail", "ok"} :
          /\ gitLog' = gitLog \o
                <<Git(<<"tag", "-d", fullVersion>>, "ok"),
                  Git(<<"push", "origin", ":refs/tags/", fullVersion>>, Res(o # "tagFail"))>> \o
                (IF o = "tagFail" THEN <<>>
                 ELSE <<Git(<<"reset", "--hard", "originalSha">>, "ok"),
                        Git(restoreBranchPush(targetBranch), Res(o = "ok"))>>)
          /\ remoteTag' = (remoteTag /\ o = "tagFail")
          /\ remoteBump' = (remoteBump /\ o # "ok")
          /\ IF o = "ok" /\ publish = "false"
             THEN rpc' = "sync" /\ thrown' = thrown
             ELSE Throw
    /\ UNCHANGED <<inputs, pushLoop, publish, tree, remoteSynced, syncState>>
    /\ UNCHANGED <<vars, textVars, pushVars>>

\* ------------------------------------------------------ branch sync
SuccessResult(version) == [success |-> TRUE, version |-> version, error |-> "", conflicts |-> <<>>]

\* syncBranches calls syncDownstreamWithRebase for main -> beta, syncDownstream otherwise
EdgeMode(e) == IF e = <<"main", "beta">> THEN "rebase" ELSE "merge"

FailedResult(e) ==
    [success |-> FALSE, version |-> "",
     error |-> IF EdgeMode(e) = "rebase" THEN "rebase sync failed" ELSE "merge sync failed",
     conflicts |-> e]

\* `git merge --abort` / `git rebase --abort` fail when there is nothing to abort
AbortRes(inProgress) == IF inProgress THEN "ok" ELSE "error"

\* the outer catch lets the error escape the sync function
SyncCatchRethrows == Throw /\ edgeResult' = edgeResult

\* the outer catch of syncDownstream / syncDownstreamWithRebase: a failed result is returned
SyncCatch ==
    /\ edgeResult' = FailedResult(edge)
    /\ rpc' = "edgeReturn"
    /\ thrown' = thrown

\* leaving a step of a sync function without an exception
Proceed(next) == rpc' = next /\ UNCHANGED <<edgeResult, thrown>>

\* syncBranches up to the first edge: the automation-commit guard, then the chain
\* of the target branch
SyncBranchesStart ==
    /\ rpc = "sync"
    /\ IF eventName = "push" /\ isAutoSyncCommit(headCommit)
       THEN results' = <<SuccessResult("")>> /\ rpc' = "done" /\ edge' = edge
       ELSE IF targetBranch = "main"
       THEN results' = <<>> /\ rpc' = "edgeFetch" /\ edge' = <<"main", "beta">>
       ELSE IF targetBranch = "beta"
       THEN results' = <<>> /\ rpc' = "edgeFetch" /\ edge' = <<"beta", "alpha">>
       ELSE results' = <<>> /\ rpc' = "done" /\ edge' = edge
    /\ UNCHANGED <<inputs, gitLog, pushLoop, publish, tree, remoteState, edgeResult, issues, thrown>>
    /\ UNCHANGED <<vars, textVars, pushVars>>

\* syncDownstream / syncDownstreamWithRebase: fetch and switch to the downstream branch
FetchAndSwitch ==
    /\ rpc = "edgeFetch"
    /\ \E o \in {"fetchFail", "switchFail", "ok"} :
          /\ gitLog' = gitLog \o
                <<Git(<<"fetch", "origin", edge[2]>>, Res(o # "fetchFail"))>> \o
                (IF o = "fetchFail" THEN <<>> ELSE <<Git(<<"switch", edge[2]>>, Res(o = "ok"))>>)
          /\ IF o = "ok"
             THEN Proceed(IF EdgeMode(edge) = "rebase" THEN "rebase" ELSE "merge")
             ELSE SyncCatch
    /\ UNCHANGED <<inputs, pushLoop, publish, tree, remoteState, edge, results, issues>>
    /\ UNCHANGED <<vars, textVars, pushVars>>

\* syncDownstreamWithRebase: git rebase <source>
Rebase ==
    /\ rpc = "rebase"
    /\ \E o \in {"ok", "conflict", "error"} :
          /\ gitLog' = Append(gitLog, Git(<<"rebase", edge[1]>>, o))
          /\ rebaseInProgress' = (o = "conflict")
          /\ Proceed(IF o = "ok" THEN "edgePush" ELSE "rebaseAbort")
    /\ UNCHANGED <<inputs, pushLoop, publish, mergeInProgress, remoteState, edge, results, issues>>
    /\ UNCHANGED <<vars, textVars, pushVars>>

\* syncDownstreamWithRebase, inner catch: git rebase --abort
RebaseAbort ==
    /\ rpc = "rebaseAbort"
    /\ gitLog' = Append(gitLog, Git(<<"rebase", "--abort">>, AbortRes(rebaseInProgress)))
    /\ rebaseInProgress' = FALSE
    /\ IF rebaseInProgress THEN Proceed("fallbackMerge") ELSE SyncCatch
    /\ UNCHANGED <<inputs, pushLoop, publish, mergeInProgress, remoteState, edge, results, issues>>
    /\ UNCHANGED <<vars, textVars, pushVars>>

\* syncDownstreamWithRebase, inner catch: the merge used as fallback
FallbackMerge ==
    /\ rpc = "fallbackMerge"
    /\ \E o \in {"ok", "conflict", "error"} :
          /\ gitLog' = Append(gitLog,
                Git(<<"merge", edge[1], "--no-edit", "--no-ff", "-m", getCommitMessage(edge[1], edge[2])>>, o))
          /\ mergeInProgress' = (o = "conflict")
          /\ IF o = "ok" THEN Proceed("edgePush") ELSE SyncCatch
    /\ UNCHANGED <<inputs, pushLoop, publish, rebaseInProgress, remoteState, edge, results, issues>>
    /\ UNCHANGED <<vars, textVars, pushVars>>

\* syncDownstream: the plain merge; a failure of any kind calls handleMergeConflict
Merge ==
    /\ rpc = "merge"
    /\ \E o \in {"ok", "conflict", "error"} :
          /\ gitLog' = Append(gitLog,
                Git(<<"merge", edge[1], "--no-edit", "--no-ff", "-m", getCommitMessage(edge[1], edge[2])>>, o))
          /\ mergeInProgress' = (o = "conflict")
          /\ Proceed(IF o = "ok" THEN "edgePush" ELSE "ladderAbort")
    /\ UNCHANGED <<inputs, pushLoop, publish, rebaseInProgress, remoteState, edge, results, issues>>
    /\ UNCHANGED <<vars, textVars, pushVars>>

\* handleMergeConflict, try block: git merge --abort; its failure goes to the catch block
HandleMergeConflictAbort ==
    /\ rpc = "ladderAbort"
    /\ gitLog' = Append(gitLog, Git(<<"merge", "--abort">>, AbortRes(mergeInProgress)))
    /\ mergeInProgress' = FALSE
    /\ Proceed(IF mergeInProgress THEN "theirs" ELSE "manualAbort")
    /\ UNCHANGED <<inputs, pushLoop, publish, rebaseInProgress, remoteState, edge, results, issues>>
    /\ UNCHANGED <<vars, textVars, pushVars>>

\* handleMergeConflict, try block: git merge -X theirs
HandleMergeConflictTheirs ==
    /\ rpc = "theirs"
    /\ \E o \in {"ok", "conflict", "error"} :
          /\ gitLog' = Append(gitLog,
                Git(<<"merge", edge[1], "-X", "theirs", "--no-edit", "-m", getCommitMessage(edge[1], edge[2])>>, o))
          /\ mergeInProgress' = (o = "conflict")
          /\ Proceed(IF o = "ok" THEN "edgePush" ELSE "manualAbort")
    /\ UNCHANGED <<inputs, pushLoop, publish, rebaseInProgress, remoteState, edge, results, issues>>
    /\ UNCHANGED <<vars, textVars, pushVars>>

\* resolveVersionConflicts: git merge --abort
ResolveVersionConflictsAbort ==
    /\ rpc = "manualAbort"
    /\ gitLog' = Append(gitLog, Git(<<"merge", "--abort">>, AbortRes(mergeInProgress)))
    /\ mergeInProgress' = FALSE
    /\ Proceed(IF mergeInProgress THEN "manualMerge" ELSE "report")
    /\ UNCHANGED <<inputs, pushLoop, publish, rebaseInProgress, remoteState, edge, results, issues>>
    /\ UNCHANGED <<vars, textVars, pushVars>>

\* resolveVersionConflicts: git merge --no-commit --no-ff leaves the merge open
\* for the version file to be written
ResolveVersionConflictsMerge ==
    /\ rpc = "manualMerge"
    /\ \E o \in {"ok", "conflict", "error"} :
          /\ gitLog' = Append(gitLog, Git(<<"merge", edge[1], "--no-commit", "--no-ff">>, o))
          /\ mergeInProgress' = (o \in {"ok", "conflict"})
          /\ Proceed(IF o = "ok" THEN "manualCommit" ELSE "report")
    /\ UNCHANGED <<inputs, pushLoop, publish, rebaseInProgress, remoteState, edge, results, issues>>
    /\ UNCHANGED <<vars, textVars, pushVars>>

\* resolveVersionConflicts: write package.json, git add, git commit
ResolveVersionConflictsCommit ==
    /\ rpc = "manualCommit"
    /\ \E ok \in BOOLEAN :
          /\ gitLog' = gitLog \o <<Git(<<"add", "package.json">>, "ok"),
                                   Git(<<"commit", "-m", getCommitMessage(edge[1], edge[2])>>, Res(ok))>>
          /\ mergeInProgress' = (mergeInProgress /\ ~ok)
          /\ Proceed(IF ok THEN "edgePush" ELSE "report")
    /\ UNCHANGED <<inputs, pushLoop, publish, rebaseInProgress, remoteState, edge, results, issues>>
    /\ UNCHANGED <<vars, textVars, pushVars>>

Issue(e, version) == [source |-> e[1], target |-> e[2], version |-> version]

\* handleMergeConflict, last catch: reportMergeConflict (a failed issue creation is
\* only logged), then the ActionError that syncDownstream catches
ReportMergeConflict ==
    /\ rpc = "report"
    /\ \E created \in BOOLEAN :
          issues' = IF created THEN issues \cup {Issue(edge, fullVersion)} ELSE issues
    /\ SyncCatch
    /\ UNCHANGED <<inputs, gitLog, pushLoop, publish, tree, remoteState, edge, results>>
    /\ UNCHANGED <<vars, textVars, pushVars>>

\* syncDownstream / syncDownstreamWithRebase: the push of the edge's result
PushEdge ==
    /\ rpc = "edgePush"
    /\ \E ok \in BOOLEAN :
          /\ gitLog' = Append(gitLog, Git(<<"push", "origin", edge[2], "--force-with-lease">>, Res(ok)))
          /\ remoteSynced' = IF ok THEN remoteSynced \cup {edge} ELSE remoteSynced
          /\ IF ok
             THEN edgeResult' = SuccessResult(fullVersion) /\ rpc' = "edgeReturn" /\ thrown' = thrown
             ELSE SyncCatch
    /\ UNCHANGED <<inputs, pushLoop, publish, tree, remoteTag, remoteBump, edge, results, issues>>
    /\ UNCHANGED <<vars, textVars, pushVars>>

\* the cascade goes on whatever the first edge returned
SyncBranchesCollectAlwaysCascade ==
    /\ rpc = "edgeReturn"
    /\ results' = Append(results, edgeResult)
    /\ IF edge = <<"main", "beta">>
       THEN edge' = <<"beta", "alpha">> /\ rpc' = "edgeFetch"
       ELSE edge' = edge /\ rpc' = "done"
    /\ UNCHANGED <<inputs, gitLog, pushLoop, publish, tree, remoteState, edgeResult, issues, thrown>>
    /\ UNCHANGED <<vars, textVars, pushVars>>

\* syncBranches after an edge returned: the result joins the list; beta -> alpha
\* follows main -> beta only when that succeeded.  handleExecutionMode then only
\* logs the failed entries.
SyncBranchesCollect ==
    /\ rpc = "edgeReturn"
    /\ results' = Append(results, edgeResult)
    /\ IF edge = <<"main", "beta">> /\ edgeResult.success
       THEN edge' = <<"beta", "alpha">> /\ rpc' = "edgeFetch"
       ELSE edge' = edge /\ rpc' = "done"
    /\ UNCHANGED <<inputs, gitLog, pushLoop, publish, tree, remoteState, edgeResult, issues, thrown>>
    /\ UNCHANGED <<vars, textVars, pushVars>>

InitRelease == Init /\ prefix = "v" /\ supported = SupportedBranch

NextRelease ==
    \/ \E t \in SupportedBranch, e \in EventNames, m \in HeadCommitMessages, n \in NpmModes :
          HandleExecutionMode(t, e, m, n)
    \/ SwitchTarget
    \/ CommitAndPushVersion
    \/ AttemptPush
    \/ HandlePushAttemptError
    \/ CommitChangelog
    \/ HandleNpmPublish
    \/ CleanupAfterPublishFailure
    \/ SyncBranchesStart
    \/ FetchAndSwitch
    \/ Rebase
    \/ RebaseAbort
    \/ FallbackMerge
    \/ Merge
    \/ HandleMergeConflictAbort
    \/ HandleMergeConflictTheirs
    \/ ResolveVersionConflictsAbort
    \/ ResolveVersionConflictsMerge
    \/ ResolveVersionConflictsCommit
    \/ ReportMergeConflict
    \/ PushEdge
    \/ SyncBranchesCollect

SpecRelease == InitRelease /\ [][NextRelease]_allVars

\* ===================================================================
\* Two runs that computed the same version for the same target branch
\* execute commitAndPushVersion against one remote; other actors may
\* push to the branch meanwhile.  A push of the branch is accepted when
\* it is a fast-forward, a push of the tag when the remote has no such
\* tag or has it at the same commit.
\* ===================================================================

\* commits other actors push while the runs are under way
MaxExternal == 1

Bump(r) == [kind |-> "bump", by |-> r, n |-> 0]

InBranch(c, branch) == \E i \in 1..Len(branch) : branch[i] = c

IsPrefix(a, b) == Len(a) <= Len(b) /\ SubSeq(b, 1, Len(a)) = a

\* a commit replayed by a rebase is a new commit
Rewritten(c) == [c EXCEPT !.n = @ + 1]

\* git rebase <upstream>: nothing to do when upstream is contained in the local branch;
\* a local commit whose change upstream already has (the version bump of the other run)
\* is dropped; the other local commits are replayed on top of upstream
rebase(local, upstream) ==
    LET own == SelectSeq(local, LAMBDA c : ~InBranch(c, upstream))
        applied == \E i \in 1..Len(upstream) : upstream[i].kind = "bump" /\ ~InBranch(upstream[i], local)
    IN  IF IsPrefix(upstream, local) THEN local
        ELSE IF applied THEN upstream
        ELSE upstream \o [i \in 1..Len(own) |-> Rewritten(own[i])]

\* commitAndPushVersion up to safePushWithRetry: add, commit, tag
RunnerCommitAndTag(r) ==
    /\ cpc[r] = "idle"
    /\ localBranch' = [localBranch EXCEPT ![r] = Append(@, Bump(r))]
    /\ localTag' = [localTag EXCEPT ![r] = Bump(r)]
    /\ pushAttempt' = [pushAttempt EXCEPT ![r] = 1]
    /\ cpc' = [cpc EXCEPT ![r] = "pushBranch"]
    /\ UNCHANGED <<originBranch, originTag, externalPushes, trackingRef>>
    /\ UNCHANGED <<vars, relVars, textVars>>

\* safePushWithRetry, attempt > 1: git fetch origin <target>, git rebase origin/<target>
RunnerPrepareForRetry(r) ==
    /\ cpc[r] = "prepare"
    /\ trackingRef' = [trackingRef EXCEPT ![r] = originBranch]
    /\ localBranch' = [localBranch EXCEPT ![r] = rebase(@, originBranch)]
    /\ cpc' = [cpc EXCEPT ![r] = "pushBranch"]
    /\ UNCHANGED <<originBranch, originTag, externalPushes, localTag, pushAttempt>>
    /\ UNCHANGED <<vars, relVars, textVars>>

\* safePushWithRetry: git push origin <target>
RunnerPushBranch(r) ==
    /\ cpc[r] = "pushBranch"
    /\ IF IsPrefix(originBranch, localBranch[r])
       THEN /\ originBranch' = localBranch[r]
            /\ trackingRef' = [trackingRef EXCEPT ![r] = localBranch[r]]
            /\ cpc' = [cpc EXCEPT ![r] = "pushTag"]
       ELSE /\ cpc' = [cpc EXCEPT ![r] = "catch"]
            /\ UNCHANGED <<originBranch, trackingRef>>
    /\ UNCHANGED <<originTag, externalPushes, localBranch, localTag, pushAttempt>>
    /\ UNCHANGED <<vars, relVars, textVars>>

\* a tag push that replaces the tag the remote has
RunnerPushTagOverwrites(r) ==
    /\ cpc[r] = "pushTag"
    /\ originTag' = localTag[r]
    /\ cpc' = [cpc EXCEPT ![r] = "done"]
    /\ UNCHANGED <<originBranch, externalPushes, localBranch, localTag, trackingRef, pushAttempt>>
    /\ UNCHANGED <<vars, relVars, textVars>>

\* safePushWithRetry: git push origin <version>, then the return
RunnerPushTag(r) ==
    /\ cpc[r] = "pushTag"
    /\ IF originTag \in {NoCommit, localTag[r]}
       THEN originTag' = localTag[r] /\ cpc' = [cpc EXCEPT ![r] = "done"]
       ELSE originTag' = originTag /\ cpc' = [cpc EXCEPT ![r] = "catch"]
    /\ UNCHANGED <<originBranch, externalPushes, localBranch, localTag, trackingRef, pushAttempt>>
    /\ UNCHANGED <<vars, relVars, textVars>>

\* safePushWithRetry, catch block: rethrow on the last attempt, else wait and retry
RunnerHandlePushAttemptError(r) ==
    /\ cpc[r] = "catch"
    /\ IF pushAttempt[r] = MAX_ATTEMPTS
       THEN cpc' = [cpc EXCEPT ![r] = "failed"] /\ UNCHANGED pushAttempt
       ELSE /\ pushAttempt' = [pushAttempt EXCEPT ![r] = @ + 1]
            /\ cpc' = [cpc EXCEPT ![r] = "prepare"]
    /\ UNCHANGED <<originBranch, originTag, externalPushes, localBranch, localTag, trackingRef>>
    /\ UNCHANGED <<vars, relVars, textVars>>

\* another actor pushes a commit to the target branch
ExternalPush ==
    /\ externalPushes < MaxExternal
    /\ externalPushes' = externalPushes + 1
    /\ originBranch' = Append(originBranch, [kind |-> "other", by |-> 0, n |-> externalPushes + 1])
    /\ UNCHANGED <<originTag, cpc, localBranch, localTag, trackingRef, pushAttempt>>
    /\ UNCHANGED <<vars, relVars, textVars>>

InitPush == Init /\ prefix = "v" /\ supported = SupportedBranch

NextPush ==
    \/ \E r \in Runners : RunnerCommitAndTag(r)
    \/ \E r \in Runners : RunnerPrepareForRetry(r)
    \/ \E r \in Runners : RunnerPushBranch(r)
    \/ \E r \in Runners : RunnerPushTag(r)
    \/ \E r \in Runners : RunnerHandlePushAttemptError(r)
    \/ ExternalPush

SpecPush == InitPush /\ [][NextPush]_allVars

\* ===================================================================
\* Properties
\* ===================================================================

\* kind of a tag by its version: release when it has no pre-release part
TagKind(tag) == IF tag.pre = "" THEN "release" ELSE tag.pre

\* newest tag of a kind in the repository, Null when there is none
LatestOfKind(kind) ==
    FindFirst(tags, {i \in 1..Len(tags) : TagKind(tags[i]) = kind})

BaseOf(v) == IF v = Null THEN DEFAULT_VERSIONS_BASE ELSE MkVersion("", v.major, v.minor, v.patch, "", 0)

RunEnded == pc \in {"done", "failed"}

\* the tag list is still the one the run started with
TagsAsAtStart == ~tagged

BumpLabel == releaseTypeMapping(getReleaseTypeFromLabels(req.labels))

HasBumpLabel == getReleaseTypeFromLabels(req.labels) # "null"

\* increment(base version of the latest release, bump label)
BumpTarget == SemverInc(BaseOf(LatestOfKind("release")), BumpLabel, "")

\* C1: the branch-state validation completes before the strategy's execute starts, and
\* when it rejects, execute is not invoked in that run and no version is computed.
C1_GateBeforeExecute ==
    /\ executed => gate = "passed"
    /\ pc = "execute" => gate = "passed"
    /\ gate = "rejected" => ~executed /\ newVersion = Null /\ pc = "failed" /\ ~tagged /\ ~synced

C1_Witness == gate = "rejected" /\ pc = "failed" /\ tags # <<>> /\ error.context = "validateBranchVersionState"

\* C2: with at least one tag, the gate lets a promotion into a pre-release branch B pass
\* exactly when the newest tag is a release or of B's kind, and a promotion into main
\* exactly when the newest tag is a beta tag.
C2_GateAllowList ==
    (gate # "none" /\ TagsAsAtStart /\ tags # <<>>) =>
        (gate = "passed" <=>
            IF req.target = "main" THEN TagKind(tags[1]) = "beta"
            ELSE TagKind(tags[1]) \in {"release", req.target})

C4_BootstrapProceeds ==
    (tags = <<>> /\ RunEnded /\ isSupportedBranch(req.target)) =>
        (executed \/ (pc = "failed" /\ error.reason = "source"))

\* C5: for a pull request with a bump label into a pre-release branch, when
\* T = increment(latest release base, label) is strictly greater than the base of the
\* branch's current pre-release version, the result is T with the branch's kind and counter 0.
C5_NewLine ==
    (/\ req.target \in {"alpha", "beta"} /\ HasBumpLabel /\ executed /\ TagsAsAtStart
     /\ LatestOfKind(req.target) # Null
     /\ BaseGt(BumpTarget, BaseOf(LatestOfKind(req.target)))) =>
        newVersion = [BumpTarget EXCEPT !.pfx = prefix, !.pre = req.target, !.num = 0]

\* C6: for a pull request with a bump label into a pre-release branch, when T is equal to
\* or lower than the base of the current pre-release version, the result is that version
\* with its counter incremented by one and its base unchanged.
C6_TieBreak ==
    (/\ req.target \in {"alpha", "beta"} /\ HasBumpLabel /\ executed /\ TagsAsAtStart
     /\ LatestOfKind(req.target) # Null
     /\ ~BaseGt(BumpTarget, BaseOf(LatestOfKind(req.target)))) =>
        newVersion = [LatestOfKind(req.target) EXCEPT !.num = @ + 1]

\* C7: a pull request into beta without a major, minor or patch label that the engine
\* does not reject resolves to no version, and nothing is committed, tagged or synced.
C7_NoLabelNoVersion ==
    (req.target = "beta" /\ ~HasBumpLabel /\ pc \in {"workflow", "tag", "sync", "done"}) =>
        (newVersion = Null /\ ~tagged /\ ~synced)

\* C8: an accepted promotion from beta into main yields exactly the base X.Y.Z of the
\* latest beta version X.Y.Z-beta.N, with no pre-release part, whatever the labels.
C8_ReleaseStripsPrerelease ==
    (req.target = "main" /\ executed) =>
        /\ LatestOfKind("beta") # Null
        /\ newVersion = [LatestOfKind("beta") EXCEPT !.pre = "", !.num = 0]

C8_Witness ==
    /\ req.target = "main" /\ executed /\ tagged /\ req.labels = {}
    /\ LatestOfKind("beta") # Null /\ LatestOfKind("beta").num > 0
    /\ tags[1] = [LatestOfKind("beta") EXCEPT !.pre = "", !.num = 0]

GlobalHighestBase ==
    LET bases == {BaseOf(LatestOfKind(k)) : k \in {"release", "beta", "alpha"}}
    IN  CHOOSE b \in bases : \A o \in bases : ~BaseGt(o, b)

Mentions(c, word) == \E i \in 1..Len(c.args) : c.args[i] = word

\* number of logged commands equal to args
Issued(args) == Cardinality({k \in 1..Len(gitLog) : gitLog[k].args = args})

\* an edge is attempted when its first command, the fetch of its downstream branch, is issued
EdgeAttempts(e) == Issued(<<"fetch", "origin", e[2]>>)

\* position in the log of the first command of the edge in progress
EdgeStart ==
    LET starts == {k \in 1..Len(gitLog) : gitLog[k].args = <<"fetch", "origin", edge[2]>>}
    IN  IF starts = {} THEN 0 ELSE CHOOSE k \in starts : \A j \in starts : j <= k

LastCommand == gitLog[Len(gitLog)]

EdgeFailedReturn == rpc = "edgeReturn" /\ ~edgeResult.success

\* C11: when main is the updated branch and the main -> beta edge failed, no command of
\* the beta -> alpha edge is issued and the result list has exactly one entry, a failed
\* one; commands of the beta -> alpha edge are issued only after main -> beta succeeded.
C11_CascadeStops ==
    targetBranch = "main" =>
        /\ (results # <<>> /\ ~results[1].success) =>
              Len(results) = 1 /\ rpc = "done" /\ EdgeAttempts(<<"beta", "alpha">>) = 0
        /\ EdgeAttempts(<<"beta", "alpha">>) > 0 =>
              /\ results # <<>>
              /\ results[1] = SuccessResult(fullVersion)
              /\ <<"main", "beta">> \in remoteSynced

C11_Witness ==
    /\ targetBranch = "main"
    /\ rpc = "done"
    /\ Len(results) = 1
    /\ results[1] = FailedResult(<<"main", "beta">>)
    /\ EdgeAttempts(<<"main", "beta">>) = 1

\* the commands of the conflict ladder of the merge-mode edge beta -> alpha
PlainMerges == {k \in 1..Len(gitLog) : /\ gitLog[k].args[1] = "merge"
                                       /\ gitLog[k].args[2] = "beta"
                                       /\ Mentions(gitLog[k], "--no-edit")
                                       /\ Mentions(gitLog[k], "--no-ff")}

TheirsMerges == {k \in 1..Len(gitLog) : gitLog[k].args[1] = "merge" /\ Mentions(gitLog[k], "theirs")}

ManualMerges == {k \in 1..Len(gitLog) : gitLog[k].args[1] = "merge" /\ Mentions(gitLog[k], "--no-commit")}

ManualCommits == {k \in 1..Len(gitLog) : /\ gitLog[k].args[1] = "commit"
                                         /\ k > 2
                                         /\ (k - 2) \in ManualMerges}

MergeAborts == {k \in 1..Len(gitLog) : gitLog[k].args = <<"merge", "--abort">>}

Failed(k) == gitLog[k].res # "ok"

\* the manual resolution was entered and failed: its abort, its merge or its commit failed
ManualLevelFailed ==
    \/ \E k \in ManualMerges \cup ManualCommits : Failed(k)
    \/ \E t \in TheirsMerges : \E k \in MergeAborts : k > t /\ Failed(k)

\* C12: the ladder of the merge-mode edge runs in the order plain merge, 'theirs' merge,
\* manual version-file resolution, tracking issue: a level is attempted only after the
\* previous one failed, nothing follows the first level that succeeds but the push, and
\* an issue exists only after all three resolution levels were attempted and failed.
C12_LadderOrder ==
    /\ \A t \in TheirsMerges : \E k \in PlainMerges : k < t /\ Failed(k)
    /\ \A n \in ManualMerges : \E t \in TheirsMerges : t < n /\ Failed(t)
    /\ \A k \in PlainMerges \cup TheirsMerges \cup ManualCommits :
          ~Failed(k) => \A j \in (k + 1)..Len(gitLog) : gitLog[j].args[1] = "push"
    /\ Issue(<<"beta", "alpha">>, fullVersion) \in issues =>
          /\ \E k \in PlainMerges : Failed(k)
          /\ \E t \in TheirsMerges : Failed(t)
          /\ ManualLevelFailed

\* C13: a sync edge, merge-mode or rebase-first, that returns a failed result because its
\* last merge stopped on conflicts has a tracking issue naming source, target and version.
C13_IssueBeforeFailure ==
    (EdgeFailedReturn /\ LastCommand.res = "conflict") => Issue(edge, fullVersion) \in issues

\* C14: when a sync edge returns a failed result, no merge and no rebase is in progress.
C14_NothingLeftInProgress ==
    EdgeFailedReturn => ~mergeInProgress /\ ~rebaseInProgress

InSync == rpc \in {"edgeFetch", "rebase", "rebaseAbort", "fallbackMerge", "merge", "ladderAbort",
                   "theirs", "manualAbort", "manualMerge", "manualCommit", "report", "edgePush",
                   "edgeReturn"}

Entries == {results[k] : k \in 1..Len(results)} \cup (IF rpc = "edgeReturn" THEN {edgeResult} ELSE {})

\* C15: a failed sync edge is a result with success false, an error text and
\* conflicts = [source, target]; no exception leaves syncBranches and the run does not
\* fail because of it; the pushed tag and the edges already pushed stay as they are.
C15_FailedEdgeIsReported ==
    /\ [](/\ \A r \in Entries :
               ~r.success => r.error # "" /\ r.conflicts \in {<<"main", "beta">>, <<"beta", "alpha">>}
          /\ (rpc = "edgeReturn" /\ ~edgeResult.success) => edgeResult.conflicts = edge
          /\ (InSync \/ results # <<>>) => ~thrown /\ rpc # "failed")
    /\ [][InSync => /\ remoteTag' = remoteTag
                    /\ remoteBump' = remoteBump
                    /\ remoteSynced \subseteq remoteSynced'
                    /\ (\A k \in 1..Len(results) : results'[k] = results[k])
                    /\ rpc' # "failed"
                    /\ ~thrown']_allVars

C15_Witness ==
    /\ rpc = "done"
    /\ ~thrown
    /\ results = <<SuccessResult(fullVersion), FailedResult(<<"beta", "alpha">>)>>
    /\ remoteTag
    /\ remoteSynced = {<<"main", "beta">>}

SkipCondition ==
    eventName = "push" /\ headCommit \cap {"[skip ci]", "chore: sync", "chore: bump version"} # {}

Downstream == IF targetBranch = "main" THEN <<"main", "beta">> ELSE <<"beta", "alpha">>

\* the sync edges below the target branch
Chain == IF targetBranch = "main" THEN {<<"main", "beta">>, <<"beta", "alpha">>}
         ELSE IF targetBranch = "beta" THEN {<<"beta", "alpha">>}
         ELSE {}

\* merge commands belong to the sync phase only
SyncCommands ==
    Cardinality({k \in 1..Len(gitLog) : gitLog[k].args[1] = "merge"})
        + Cardinality({k \in 1..Len(gitLog) : \E e \in Chain : gitLog[k].args = <<"fetch", "origin", e[2]>>})

\* C16: syncBranches issues no command at all exactly when the event is a push whose head
\* commit message carries '[skip ci]', 'chore: sync' or 'chore: bump version'; otherwise,
\* in particular for every pull-request event whatever the message, the first edge of the
\* target branch's chain is attempted exactly once and no edge more than once.
C16_SkipOnlyAutomationPush ==
    /\ SkipCondition => SyncCommands = 0 /\ results \in {<<>>, <<SuccessResult("")>>}
    /\ (rpc = "done" /\ ~SkipCondition /\ Chain # {}) => EdgeAttempts(Downstream) = 1
    /\ \A e \in Chain : EdgeAttempts(e) <= 1

C16_Witness ==
    /\ rpc = "done"
    /\ eventName = "push"
    /\ headCommit = {"chore: bump version"}
    /\ targetBranch = "main"
    /\ remoteTag
    /\ results = <<SuccessResult("")>>
    /\ SyncCommands = 0

\* C17: when syncBranches starts, updateVersionAndCreateTag has returned and the version
\* is durably tagged: the tag is on the remote and the remote target branch has the
\* version-bump commit.
C17_SyncAfterDurableTag ==
    rpc = "sync" => remoteTag /\ remoteBump /\ publish # "" /\ ~thrown

InPushLoop == rpc \in {"push", "pushCatch"}

TagPush == <<"push", "origin", fullVersion>>

TagPushed == \E k \in 1..Len(gitLog) : gitLog[k].args = TagPush /\ gitLog[k].res = "ok"

\* steps safePushWithRetry can still take
PushMeasure ==
    IF rpc = "push" THEN 2 * (MAX_ATTEMPTS - attempt) + 2
    ELSE IF rpc = "pushCatch" THEN 2 * (MAX_ATTEMPTS - attempt) + 1
    ELSE 0

\* C18: safePushWithRetry makes at most MAX_ATTEMPTS attempts; it returns as soon as one
\* attempt pushed the branch and the tag, waits once between two attempts, raises when
\* the last attempt failed, and every step brings it closer to its end.
C18_BoundedPushRetry ==
    /\ [](/\ attempt <= MAX_ATTEMPTS
          /\ Issued(safePushBranch(targetBranch)) <= MAX_ATTEMPTS
          /\ Issued(TagPush) <= MAX_ATTEMPTS
          /\ InPushLoop => ~TagPushed /\ ~remoteTag
          /\ attempt >= 1 => waits = attempt - 1
          /\ rpc = "changelog" =>
                /\ LastCommand = Git(TagPush, "ok")
                /\ gitLog[Len(gitLog) - 1] = Git(safePushBranch(targetBranch), "ok")
          /\ (thrown /\ attempt >= 1 /\ ~TagPushed) => attempt = MAX_ATTEMPTS)
    /\ [][/\ InPushLoop => PushMeasure' < PushMeasure
          /\ (rpc = "pushCatch" /\ attempt = MAX_ATTEMPTS) => thrown'
          /\ (rpc = "pushCatch" /\ attempt < MAX_ATTEMPTS) => rpc' = "push" /\ waits' = waits + 1]_allVars

C18_Witness ==
    /\ thrown
    /\ attempt = MAX_ATTEMPTS
    /\ waits = MAX_ATTEMPTS - 1
    /\ Issued(safePushBranch(targetBranch)) = MAX_ATTEMPTS
    /\ remoteBump
    /\ ~remoteTag

\* C19: no push is forced unconditionally: a logged push carries neither --force nor -f.
C19_NoUnconditionalForce ==
    \A k \in 1..Len(gitLog) :
        gitLog[k].args[1] = "push" => ~Mentions(gitLog[k], "--force") /\ ~Mentions(gitLog[k], "-f")

C19_Witness ==
    /\ rpc = "done"
    /\ \E k \in 1..Len(gitLog) : gitLog[k] = Git(restoreBranchPush(targetBranch), "ok")
    /\ \E k \in 1..Len(gitLog) : gitLog[k] = Git(<<"push", "origin", "alpha", "--force-with-lease">>, "ok")
    /\ Issued(safePushBranch(targetBranch)) > 0

EdgePushes == {k \in (EdgeStart + 1)..Len(gitLog) : gitLog[k].args[1] = "push"}

ChangelogPush == <<"push", "origin", "HEAD:refs/heads/", targetBranch>>

\* C20: a push that fails is repeated until MAX_ATTEMPTS attempts were made before its
\* operation counts as failed: the push of a sync edge, the push of the changelog commit
\* and the version-bump push.
C20_EveryPushRetried ==
    /\ (EdgeFailedReturn /\ LastCommand.args[1] = "push") => Cardinality(EdgePushes) = MAX_ATTEMPTS
    /\ (thrown /\ LastCommand = Git(ChangelogPush, "error")) => Issued(ChangelogPush) = MAX_ATTEMPTS
    /\ (thrown /\ LastCommand = Git(safePushBranch(targetBranch), "error")) =>
          Issued(safePushBranch(targetBranch)) = MAX_ATTEMPTS

\* ------------------------------------------------ pull-request workflow
\* a step of the run that changes the repository: a tag is created or the branches are synced
ChangesRepository == tags' # tags \/ (tagged' /\ ~tagged) \/ (synced' /\ ~synced)

\* C21: a run changes the repository (version commit and tag, branch sync) only for a
\* closed and merged pull request with a non-empty new version; for an open or unmerged
\* pull request it produces the preview comment and the action outputs only.
C21_PreviewChangesNothing ==
    /\ [][ChangesRepository => (req.merged /\ newVersion # Null /\ req' = req)]_vars
    /\ [](pc \in {"tag", "sync"} => (req.merged /\ newVersion # Null))
    /\ [](~req.merged => (~tagged /\ ~synced))

C21_Witness ==
    /\ pc = "done"
    /\ ~req.merged
    /\ commented
    /\ newVersion # Null
    /\ outputVersion = newVersion
    /\ tags # <<>>

\* the step leaves the failed run behind: a fresh process starts on the next event
NewRunStarts == runFailed /\ ~runFailed'

\* C29: when a run ends with a fatal error and the event carries a pull request, the run
\* is marked failed and an error comment with the context of the error is attempted (posted
\* or not) before the run exits, and after the error no tagging or sync step executes.
C29_FatalErrorIsReported ==
    /\ []((pc = "failed" /\ runFailed /\ req # NoRequest) =>
            (errorComment # NoComment /\ errorComment.context = ReachingContext(error)))
    /\ [][(pc = "failed" /\ pc' # "failed") => runFailed]_vars
    /\ [][pc = "failed" =>
            (/\ tags' = tags
             /\ NewRunStarts \/ (tagged' = tagged /\ synced' = synced /\ newVersion' = newVersion))]_vars

C29_Witness ==
    /\ pc = "failed"
    /\ runFailed
    /\ req.merged
    /\ errorComment.context = "calculateNewVersion"
    /\ ~errorComment.posted
    /\ tags # <<>>

\* C30: for a pull request whose target branch is not in the supported set the engine does
\* not run: no tag listing, no gate, no strategy, no tag, no sync, and no version is output.
C30_UnsupportedBranchSkipped ==
    /\ []((req # NoRequest /\ req.target \notin supported) =>
            (/\ pc = "done"
             /\ ~isInitialized /\ listedTags = <<>> /\ cache = EmptyCache
             /\ gate = "none" /\ ~executed
             /\ newVersion = Null /\ outputVersion = Null
             /\ ~tagged /\ ~synced))
    /\ [][(req' # NoRequest /\ req'.target \notin supported) => tags' = tags]_vars

C30_Witness ==
    /\ req.target = "alpha"
    /\ "alpha" \notin supported
    /\ req.merged
    /\ req.labels = {"minor"}
    /\ pc = "done"

\* ------------------------------------------------------ tag inventory
\* C22: within one run the tag list is obtained once: the latest tag the gate sees is the
\* latest tag of the list the inventory was initialized from, and the cache, once filled,
\* does not change, even if tags are created during the run.
C22_SingleSnapshot ==
    /\ gate # "none" => gateSaw = getLatestTag(listedTags)
    /\ (isInitialized /\ listedTags # ListFailure) => cache = initialize(EmptyCache, FALSE, listedTags, prefix)

\* C23: a failed tag listing ends the run with the error, no version computed and the
\* inventory not initialized; a listing of zero tags initializes the inventory with no
\* latest version for any branch and 0.0.0 as the global highest base version.
C23_ListingFailureIsFatal ==
    /\ listedTags = ListFailure =>
           (/\ pc = "failed"
            /\ error.context = "git tag -l"
            /\ ~isInitialized
            /\ cache = EmptyCache
            /\ baseVersion = Null /\ newVersion = Null /\ outputVersion = Null
            /\ ~executed /\ ~tagged)
    /\ (isInitialized /\ listedTags = <<>>) =>
           (/\ cache = EmptyCache
            /\ cleanVersion(getGlobalHighestVersion(cache, prefix)) = DEFAULT_VERSIONS_BASE)

C23_Witness ==
    /\ listedTags = ListFailure
    /\ runFailed
    /\ errorComment.context = "git tag -l"
    /\ tags # <<>>

C23_WitnessNoTags ==
    /\ isInitialized
    /\ listedTags = <<>>
    /\ pc = "done"
    /\ newVersion # Null

\* ------------------------------------------------------ version strings
\* the function has been applied to the tag
After(step) ==
    LET order == <<"versionParse", "cleanVersion", "parseVersion", "roundTrip", "getTagType",
                   "upgrade", "done">>
        pos(x) == CHOOSE k \in 1..Len(order) : order[k] = x
    IN  tpc # "idle" /\ pos(tpc) > pos(step)

KindName(k) == IF k = ALPHA THEN "alpha" ELSE IF k = BETA THEN "beta" ELSE "unknown"

\* C24: under every supported prefix a tag made of the prefix and X.Y.Z is classified as
\* release and can be the latest main version, a tag X.Y.Z-K.N with K alpha or beta is
\* classified as K, and one with another pre-release kind as unknown.
C24_Classification ==
    (After("getTagType") /\ input.pfx = prefix) =>
        (/\ input.form = "release" => (tagType = "release" /\ mainEligible)
         /\ input.form = "prerelease" => tagType = KindName(input.kind))

\* the longest supported prefix the text starts with, "" when there is none
LongestPrefix(text) ==
    LET hits == {q \in SUPPORTED_PREFIXES : StartsWith(text, Chars(q))}
    IN  IF hits = {} THEN ""
        ELSE CHOOSE q \in hits : \A o \in hits : Len(Chars(o)) <= Len(Chars(q))

Stripped(text) == Slice(text, Len(Chars(LongestPrefix(text))))

\* C25: stripping the prefix of a tag removes the longest supported prefix the tag starts
\* with, under every current prefix, in versionParse and in cleanVersion.
C25_LongestPrefixStripped ==
    /\ After("versionParse") => parseResult.pkgVersion = Stripped(TagText(input))
    /\ After("cleanVersion") => legacyClean = Stripped(TagText(input))

\* C26: for every tag parseVersion accepts, normalizing the canonical text of the parsed
\* version gives the normalized tag, which is the current prefix followed by the cleaned
\* version whatever supported prefix the tag carried.
C26_RoundTrip ==
    /\ After("versionParse") =>
           parseResult.targetVersion = Chars(prefix) \o Stripped(TagText(input))
    /\ (After("roundTrip") /\ parsed.valid) => roundTrip = parseResult.targetVersion

\* C27: parseVersion of X.Y.Z-0-K.N, K alpha or beta, yields the major, minor, patch,
\* pre-release kind and counter that parseVersion of X.Y.Z-K.N yields.
C27_MalformedRepair ==
    (After("parseVersion") /\ input.form = "malformed" /\ input.kind \in {ALPHA, BETA}) =>
        (/\ parsed.valid
         /\ parsed = parseVersionStr(TagText([input EXCEPT !.form = "prerelease"]), prefix)
         /\ parsed.major = input.major /\ parsed.minor = input.minor /\ parsed.patch = input.patch
         /\ parsed.prerelease = <<input.kind, NumText(input.num)>>)

C27_Witness ==
    /\ tpc = "done"
    /\ input.form = "malformed"
    /\ input.kind = BETA
    /\ input.pfx = "version-"
    /\ prefix = "v"
    /\ parsed.valid
    /\ parsed.prerelease = <<BETA, <<"1">>>>

\* C28: for a tag or base version that does not parse, parsing yields null and the callers
\* go on with the default base version 0.0.0 instead of producing no version.
C28_DefaultOnUnparsable ==
    (tpc = "done" /\ ~parsed.valid) => (baseString = ZERO_BASE /\ upgrade # "null")

\* C31: a pull request into main from a branch named hotfix/... that carries the label
\* hotfix together with a bump label is accepted and yields the current main version
\* incremented by that label.
C31_HotfixPromotion ==
    (/\ req.target = "main" /\ req.source = HotfixBranch
     /\ "hotfix" \in req.labels /\ HasBumpLabel
     /\ LatestOfKind("release") # Null /\ TagsAsAtStart /\ RunEnded) =>
        /\ pc = "done"
        /\ newVersion = addVersionPrefix(BumpTarget, prefix)

\* the version calculateNewVersion gives the pull request r on the current tags, Null
\* when the promotion is rejected or resolves to no version
NextVersionFor(r) ==
    LET c == initialize(EmptyCache, FALSE, tags, prefix)
        b == getBaseVersion(r.target, r.source, c, prefix)
    IN  IF ~isSupportedBranch(r.target) THEN Null
        ELSE IF b.error # NoError \/ b.value = Null \/ parseVersion(b.value) = Null THEN Null
        ELSE IF validateBranchVersionState(r.target, tags) # NoError THEN Null
        ELSE LET result == StrategyExecute(r.target, cleanVersion(b.value), r.source, r.labels, c)
             IN  IF result = Null THEN Null ELSE addVersionPrefix(result, prefix)

\* C35: a version that calculateNewVersion returns for an accepted promotion is not yet
\* a tag of the repository.
C35_ProposedVersionIsNew ==
    (executed /\ newVersion # Null /\ TagsAsAtStart) => ~TagExists(tags, newVersion)

\* C36: a release version produced for main is strictly greater, by major.minor.patch,
\* than every release version tagged before it.
C36_ReleasesIncrease ==
    /\ (req.target = "main" /\ newVersion # Null /\ TagsAsAtStart) =>
          \A i \in 1..Len(tags) :
              TagKind(tags[i]) = "release" => BaseGt(BaseOf(newVersion), BaseOf(tags[i]))
    /\ \A i, j \in 1..Len(tags) :
          (i < j /\ TagKind(tags[i]) = "release" /\ TagKind(tags[j]) = "release") =>
              BaseGt(BaseOf(tags[i]), BaseOf(tags[j]))

C36_Witness ==
    /\ req.target = "main" /\ executed /\ newVersion # Null /\ TagsAsAtStart
    /\ LatestOfKind("release") # Null
    /\ BaseGt(BaseOf(newVersion), BaseOf(LatestOfKind("release")))

\* C39: in every tag state reached from the empty repository there is a pull request
\* (source branch, target branch, labels) whose promotion passes the gate and yields a
\* version.
C39_NeverStuck ==
    \E r \in Requests \cup CycleRequests : NextVersionFor(r) # Null

\* ------------------------------------------------ release run, continued
\* number of edges of the chain whose first command was issued
AttemptedEdges ==
    Cardinality({e \in Chain : EdgeAttempts(e) > 0})

C33_VersionFileResolved ==
    (rpc = "edgeReturn" /\ \E n \in ManualMerges : n > EdgeStart /\ gitLog[n].res = "conflict") =>
        /\ edgeResult.success
        /\ \E k \in ManualCommits : k > EdgeStart /\ ~Failed(k)

PublishFailed == publish \in {"threw", "false"}

CleanupEnded == PublishFailed /\ rpc # "cleanup"

RemoteTagDelete == <<"push", "origin", ":refs/tags/", fullVersion>>

ResetToOriginalSha == <<"reset", "--hard", "originalSha">>

Succeeded(args) == \E k \in 1..Len(gitLog) : gitLog[k] = Git(args, "ok")

C38_AllOrNothing ==
    (thrown /\ rpc = "failed") => ~remoteTag /\ ~remoteBump

\* ------------------------------------------------ concurrent pushes
\* C37: when commitAndPushVersion of a run has succeeded, the version tag on the remote
\* points to that run's version-bump commit and this commit is on the remote target
\* branch.
C37_TagOnBranch ==
    \A r \in Runners :
        cpc[r] = "done" =>
            /\ originTag = localTag[r]
            /\ originTag.kind = "bump"
            /\ InBranch(originTag, originBranch)

BothEnded == \A r \in Runners : cpc[r] \in {"done", "failed"}

\* C40: of two runs pushing the same version to the same branch, with no other actor
\* pushing, at most one succeeds; the one that does not succeed fails on its last
\* attempt; when both have ended exactly one has succeeded and the remote has the tag,
\* at the winner's commit.
C40_OneWinner ==
    /\ ~(\A r \in Runners : cpc[r] = "done")
    /\ \A r \in Runners : cpc[r] = "failed" => pushAttempt[r] = MAX_ATTEMPTS
    /\ \A r \in Runners : pushAttempt[r] <= MAX_ATTEMPTS
    /\ \A r \in Runners : cpc[r] = "done" => originTag = localTag[r]
    /\ (BothEnded /\ externalPushes = 0) =>
          /\ \E r \in Runners : cpc[r] = "done"
          /\ originTag # NoCommit

C40_Witness ==
    /\ externalPushes = 0
    /\ cpc[1] = "done"
    /\ cpc[2] = "failed"
    /\ pushAttempt[2] = MAX_ATTEMPTS
    /\ originTag = Bump(1)

====
